---------------------------- MODULE Spec2Model ----------------------------
(***************************************************************************)
(* A model of the formula layer of the crop-model-figure scripts.          *)
(*                                                                         *)
(* Every formula of the scripts is evaluated on Python floats or on NumPy  *)
(* float64 arrays, that is on IEEE 754 binary64 numbers with round to      *)
(* nearest, ties to even.  The model therefore carries its own binary64    *)
(* arithmetic: a finite number is sign * m * 2^e with m an odd natural     *)
(* number below 2^53 (zero is m = 0), so that the rounding of every        *)
(* product, sum and quotient is the rounding the scripts perform.          *)
(***************************************************************************)
EXTENDS Integers, Sequences, FiniteSets, TLC

-----------------------------------------------------------------------------
(* Natural numbers of any size, as sequences of 14-bit limbs (least        *)
(* significant first, no leading zero limb; zero is <<>>): the products    *)
(* and sums of limbs stay below 2^31.                                      *)

LimbBits == 14

Base == 2^LimbBits

Max2(x, y) == IF x >= y THEN x ELSE y

Min2(x, y) == IF x <= y THEN x ELSE y

Limb(a, i) == IF i >= 1 /\ i <= Len(a) THEN a[i] ELSE 0

RECURSIVE BTrim(_)
BTrim(a) ==
    IF Len(a) = 0 THEN <<>>
    ELSE IF a[Len(a)] # 0 THEN a
    ELSE BTrim(SubSeq(a, 1, Len(a) - 1))

\* The number of bits of a.
BitLen(a) ==
    IF Len(a) = 0 THEN 0
    ELSE LimbBits * (Len(a) - 1)
         + (CHOOSE k \in 1..LimbBits : 2^(k-1) <= a[Len(a)] /\ a[Len(a)] < 2^k)

\* Bit i of a, the least significant being bit 1.
Bit(a, i) ==
    IF i < 1 THEN 0
    ELSE (Limb(a, ((i - 1) \div LimbBits) + 1) \div 2^((i - 1) % LimbBits)) % 2

\* a * 2^k.
BShl(a, k) ==
    IF Len(a) = 0 \/ k <= 0 THEN a
    ELSE LET q == k \div LimbBits
             r == k % LimbBits
         IN  BTrim([i \in 1..(Len(a) + q + 1) |->
                      ((Limb(a, i - q) * 2^r) % Base)
                      + ((Limb(a, i - q - 1) * 2^r) \div Base)])

\* a \div 2^k.
BShr(a, k) ==
    IF k <= 0 THEN a
    ELSE IF k >= BitLen(a) THEN <<>>
    ELSE LET q == k \div LimbBits
             r == k % LimbBits
         IN  BTrim([i \in 1..(Len(a) - q) |->
                      (Limb(a, i + q) \div 2^r)
                      + ((Limb(a, i + q + 1) % 2^r) * 2^(LimbBits - r))])

RECURSIVE BCmpFrom(_, _, _)
BCmpFrom(a, b, i) ==
    IF i = 0 THEN 0
    ELSE IF a[i] # b[i] THEN (IF a[i] > b[i] THEN 1 ELSE -1)
    ELSE BCmpFrom(a, b, i - 1)

\* -1, 0 or 1 as a < b, a = b or a > b.
BCmp(a, b) ==
    IF Len(a) # Len(b) THEN (IF Len(a) > Len(b) THEN 1 ELSE -1)
    ELSE BCmpFrom(a, b, Len(a))

RECURSIVE BAddFrom(_, _, _, _)
BAddFrom(a, b, i, c) ==
    IF i > Max2(Len(a), Len(b))
    THEN (IF c = 0 THEN <<>> ELSE <<c>>)
    ELSE LET s == Limb(a, i) + Limb(b, i) + c
         IN  <<s % Base>> \o BAddFrom(a, b, i + 1, s \div Base)

BAdd(a, b) == BAddFrom(a, b, 1, 0)

RECURSIVE BSubFrom(_, _, _, _)
BSubFrom(a, b, i, c) ==
    IF i > Len(a) THEN <<>>
    ELSE LET s == Limb(a, i) - Limb(b, i) - c
         IN  <<(IF s < 0 THEN s + Base ELSE s)>>
             \o BSubFrom(a, b, i + 1, IF s < 0 THEN 1 ELSE 0)

\* a - b for a >= b.
BSub(a, b) == BTrim(BSubFrom(a, b, 1, 0))

\* The sum of a[i] * b[k - i] over the limbs i.. of a: one column of the
\* product (at most four limbs by four, so below 2^30).
RECURSIVE BColumn(_, _, _, _)
BColumn(a, b, k, i) ==
    IF i > Len(a) \/ i >= k THEN 0
    ELSE a[i] * Limb(b, k - i) + BColumn(a, b, k, i + 1)

RECURSIVE BMulFrom(_, _, _, _)
BMulFrom(a, b, k, c) ==
    IF k > Len(a) + Len(b)
    THEN (IF c = 0 THEN <<>> ELSE <<c % Base>> \o BMulFrom(a, b, k, c \div Base))
    ELSE LET s == BColumn(a, b, k, Max2(1, k - Len(b))) + c
         IN  <<s % Base>> \o BMulFrom(a, b, k + 1, s \div Base)

BMul(a, b) ==
    IF Len(a) = 0 \/ Len(b) = 0 THEN <<>> ELSE BTrim(BMulFrom(a, b, 2, 0))

\* The largest digit q (built from bit j down) with q * b <= t.
RECURSIVE BDigit(_, _, _, _)
BDigit(t, b, q, j) ==
    IF j < 0 THEN q
    ELSE IF BCmp(BMul(b, <<q + 2^j>>), t) <= 0
         THEN BDigit(t, b, q + 2^j, j - 1)
         ELSE BDigit(t, b, q, j - 1)

\* Long division, one limb of a at a time from the top: <<quotient limbs,
\* remainder>> with r the remainder so far.
RECURSIVE BDivFrom(_, _, _, _)
BDivFrom(a, b, i, r) ==
    IF i = 0 THEN <<<<>>, r>>
    ELSE LET t    == BTrim(<<a[i]>> \o r)
             d    == BDigit(t, b, 0, LimbBits - 1)
             rest == BDivFrom(a, b, i - 1,
                              IF d = 0 THEN t ELSE BSub(t, BMul(b, <<d>>)))
         IN  <<Append(rest[1], d), rest[2]>>

\* <<quotient, remainder>> of a by b, b > 0.
BDivMod(a, b) ==
    LET qr == BDivFrom(a, b, Len(a), <<>>) IN <<BTrim(qr[1]), qr[2]>>

RECURSIVE BFromNat(_)
BFromNat(n) == IF n = 0 THEN <<>> ELSE <<n % Base>> \o BFromNat(n \div Base)

\* The number of zero bits below the lowest one bit of a > 0.
RECURSIVE BLowZeros(_, _)
BLowZeros(a, i) ==
    IF i > Len(a) THEN 0
    ELSE IF a[i] = 0 THEN LimbBits + BLowZeros(a, i + 1)
    ELSE CHOOSE t \in 0..(LimbBits - 1) :
             a[i] % 2^t = 0 /\ (a[i] \div 2^t) % 2 = 1

-----------------------------------------------------------------------------
(* binary64 values.  cls is "fin" (sign * m * 2^e, m odd or empty), "inf", *)
(* "nan", "approx" (a double the model does not compute: the result of the *)
(* C library's pow on an exponent other than 0 and 1), or the name of the  *)
(* Python exception the evaluation raised.  np tells a NumPy float64 (an   *)
(* array element) from a Python float: the two differ on a zero divisor.   *)

Prec == 53

Emax == 1023

Emin == -1022

QMin == Emin - (Prec - 1)

Exceptions == {"ZeroDivisionError", "ValueError", "OverflowError"}

Fin(s, m, e, np) == [cls |-> "fin", sign |-> s, m |-> m, e |-> e, np |-> np]

Zero(s, np) == Fin(s, <<>>, 0, np)

Inf(s, np) == [cls |-> "inf", sign |-> s, m |-> <<>>, e |-> 0, np |-> np]

NaN(np) == [cls |-> "nan", sign |-> 0, m |-> <<>>, e |-> 0, np |-> np]

Approx(np) == [cls |-> "approx", sign |-> 0, m |-> <<>>, e |-> 0, np |-> np]

Raise(exc) == [cls |-> exc, sign |-> 0, m |-> <<>>, e |-> 0, np |-> FALSE]

IsRaise(v) == v.cls \in Exceptions

IsZero(v) == v.cls = "fin" /\ Len(v.m) = 0

IsFinite(v) == v.cls = "fin"

IsNonFinite(v) == v.cls \in {"inf", "nan"}

\* sign * M * 2^q in canonical form: m odd, or zero.
Canon(s, M, q, np) ==
    IF Len(M) = 0 THEN Zero(s, np)
    ELSE LET tz == BLowZeros(M, 1)
         IN  Fin(s, BShr(M, tz), q + tz, np)

\* sign * M * 2^q, M at most 2^53, as a double: above the largest double it
\* is an infinity.
Pack(s, M, q, np) ==
    IF q + BitLen(M) - 1 > Emax THEN Inf(s, np) ELSE Canon(s, M, q, np)

\* The double nearest to sign * (N + t) * 2^e, ties to even, where t is 0 or,
\* with sticky, some fraction strictly between 0 and 1.
RoundToDouble(s, N, e, sticky, np) ==
    IF Len(N) = 0 THEN Zero(s, np)
    ELSE LET L == BitLen(N)
             q == Max2(e + L - Prec, QMin)
             d == q - e
         IN  IF d <= 0 THEN Pack(s, N, e, np)
             ELSE LET kept  == BShr(N, d)
                      guard == Bit(N, d)
                      low   == sticky \/ BShl(BShr(N, d - 1), d - 1) # N
                      up    == guard = 1 /\ (low \/ Bit(kept, 1) = 1)
                  IN  Pack(s, IF up THEN BAdd(kept, <<1>>) ELSE kept, q, np)

\* float(n) of a Python int n >= 0 (exact below 2^53).
FromNat(n, np) == RoundToDouble(0, BFromNat(n), 0, FALSE, np)

fneg(a) ==
    IF a.cls \in {"fin", "inf"} THEN [a EXCEPT !.sign = 1 - a.sign] ELSE a

\* a * b: float.__mul__, numpy.multiply.
fmul(a, b) ==
    LET np == a.np \/ b.np
        s  == (a.sign + b.sign) % 2
    IN  IF IsRaise(a) THEN a
        ELSE IF IsRaise(b) THEN b
        ELSE IF a.cls = "nan" \/ b.cls = "nan" THEN NaN(np)
        ELSE IF a.cls = "approx" \/ b.cls = "approx" THEN Approx(np)
        ELSE IF a.cls = "inf" \/ b.cls = "inf"
             THEN (IF IsZero(a) \/ IsZero(b) THEN NaN(np) ELSE Inf(s, np))
        ELSE RoundToDouble(s, BMul(a.m, b.m), a.e + b.e, FALSE, np)

\* 1 (or 2) when the non-zero finite a (or b) is so much the larger that the
\* other is below a quarter of the last bit the sum can keep; else 0.
FarApart(a, b) ==
    IF a.e + BitLen(a.m) - (b.e + BitLen(b.m)) > Prec + 3 THEN 1
    ELSE IF b.e + BitLen(b.m) - (a.e + BitLen(a.m)) > Prec + 3 THEN 2
    ELSE 0

\* The sum of two finite numbers before it is rounded: sign * m * 2^e with
\* m of any size.
ExactSum(a, b) ==
    LET e == Min2(a.e, b.e)
        A == BShl(a.m, a.e - e)
        B == BShl(b.m, b.e - e)
        c == BCmp(A, B)
        np == a.np \/ b.np
    IN  IF a.sign = b.sign THEN Canon(a.sign, BAdd(A, B), e, np)
        ELSE IF c = 0 THEN Zero(0, np)
        ELSE IF c > 0 THEN Canon(a.sign, BSub(A, B), e, np)
        ELSE Canon(b.sign, BSub(B, A), e, np)

\* a + b: float.__add__, numpy.add.
fadd(a, b) ==
    LET np == a.np \/ b.np
    IN  IF IsRaise(a) THEN a
        ELSE IF IsRaise(b) THEN b
        ELSE IF a.cls = "nan" \/ b.cls = "nan" THEN NaN(np)
        ELSE IF a.cls = "approx" \/ b.cls = "approx" THEN Approx(np)
        ELSE IF a.cls = "inf" /\ b.cls = "inf"
             THEN (IF a.sign = b.sign THEN Inf(a.sign, np) ELSE NaN(np))
        ELSE IF a.cls = "inf" THEN Inf(a.sign, np)
        ELSE IF b.cls = "inf" THEN Inf(b.sign, np)
        ELSE IF IsZero(a) \/ IsZero(b) \/ FarApart(a, b) = 0
             THEN LET x == ExactSum(a, b)
                  IN  RoundToDouble(x.sign, x.m, x.e, FALSE, np)
             ELSE LET big   == IF FarApart(a, b) = 1 THEN a ELSE b
                      small == IF FarApart(a, b) = 1 THEN b ELSE a
                      pad   == Prec + 3 - BitLen(big.m)
                      A     == BShl(big.m, pad)
                  IN  RoundToDouble(big.sign,
                                    IF big.sign = small.sign THEN A
                                    ELSE BSub(A, <<1>>),
                                    big.e - pad, TRUE, np)

\* a - b: float.__sub__, numpy.subtract.
fsub(a, b) == fadd(a, IF IsRaise(a) THEN b ELSE fneg(b))

\* a / b: float.__truediv__ raises on a zero divisor, numpy.true_divide
\* follows IEEE 754 (and warns).
fdiv(a, b) ==
    LET np == a.np \/ b.np
        s  == (a.sign + b.sign) % 2
    IN  IF IsRaise(a) THEN a
        ELSE IF IsRaise(b) THEN b
        ELSE IF IsZero(b) /\ ~np THEN Raise("ZeroDivisionError")
        ELSE IF a.cls = "nan" \/ b.cls = "nan" THEN NaN(np)
        ELSE IF a.cls = "approx" \/ b.cls = "approx" THEN Approx(np)
        ELSE IF a.cls = "inf"
             THEN (IF b.cls = "inf" THEN NaN(np) ELSE Inf(s, np))
        ELSE IF b.cls = "inf" THEN Zero(s, np)
        ELSE IF IsZero(b) THEN (IF IsZero(a) THEN NaN(np) ELSE Inf(s, np))
        ELSE IF IsZero(a) THEN Zero(s, np)
        ELSE LET k  == Max2(0, BitLen(b.m) - BitLen(a.m) + Prec + 2)
                 qr == BDivMod(BShl(a.m, k), b.m)
             IN  RoundToDouble(s, qr[1], a.e - b.e - k, Len(qr[2]) # 0, np)

One(np) == FromNat(1, np)

IsOne(v) == v.cls = "fin" /\ v.sign = 0 /\ v.m = <<1>> /\ v.e = 0

\* x ** y: float.__pow__ (the C library's pow), numpy.power.
fpow(x, y) ==
    LET np == x.np \/ y.np
    IN  IF IsRaise(x) THEN x
        ELSE IF IsRaise(y) THEN y
        ELSE IF IsZero(y) \/ IsOne(x) THEN One(np)
        ELSE IF x.cls = "nan" \/ y.cls = "nan" THEN NaN(np)
        ELSE IF x.cls = "approx" \/ y.cls = "approx" THEN Approx(np)
        ELSE IF IsOne(y) THEN [x EXCEPT !.np = np]
        ELSE IF IsZero(x) /\ y.sign = 1
             THEN (IF np THEN Inf(0, np) ELSE Raise("ZeroDivisionError"))
        ELSE Approx(np)

\* a == b on floats: NaN equals nothing, the two zeros are equal; an
\* evaluation that raised, or that the model does not compute, has no
\* value to compare.
FEq(a, b) ==
    /\ a.cls \in {"fin", "inf"}
    /\ b.cls \in {"fin", "inf"}
    /\ a.cls = b.cls
    /\ a.m = b.m
    /\ a.e = b.e
    /\ (a.sign = b.sign \/ IsZero(a))

\* -1, 0 or 1 as |a| is below, equal to or above |b|, for a and b finite
\* or infinite.
MagCmp(a, b) ==
    LET ta == a.e + BitLen(a.m)
        tb == b.e + BitLen(b.m)
        e  == Min2(a.e, b.e)
    IN  IF a.cls = "inf" \/ b.cls = "inf"
        THEN (IF a.cls = b.cls THEN 0 ELSE IF a.cls = "inf" THEN 1 ELSE -1)
        ELSE IF IsZero(a) \/ IsZero(b)
        THEN (IF IsZero(a) /\ IsZero(b) THEN 0 ELSE IF IsZero(a) THEN -1 ELSE 1)
        ELSE IF ta # tb THEN (IF ta > tb THEN 1 ELSE -1)
        ELSE BCmp(BShl(a.m, a.e - e), BShl(b.m, b.e - e))

\* a < b on floats: false when either has no value to compare.
FLt(a, b) ==
    /\ a.cls \in {"fin", "inf"}
    /\ b.cls \in {"fin", "inf"}
    /\ ~FEq(a, b)
    /\ IF a.sign # b.sign THEN a.sign = 1
       ELSE IF a.sign = 0 THEN MagCmp(a, b) < 0
       ELSE MagCmp(a, b) > 0

\* The decimal literal n/d (float('0.015') is Dec(15, 1000)): n and d are
\* exact, and the quotient is rounded once, as the literal is.
Dec(n, d, np) == [fdiv(FromNat(n, TRUE), FromNat(d, TRUE)) EXCEPT !.np = np]

-----------------------------------------------------------------------------
(* The formulas of the seven scripts, as the source evaluates them.        *)

\* A Python float literal n/d, a Python int n, and the same number as an
\* element of a NumPy array (np.array, np.linspace).
PyFloat(n, d) == Dec(n, d, FALSE)

PyInt(n) == FromNat(n, FALSE)

Elem(v) == IF IsRaise(v) THEN v ELSE [v EXCEPT !.np = TRUE]

\* growth_respiration with + written for *.
growth_respiration_sum(GTW, m) == fadd(m, GTW)

\* growth_respiration: return m * GTW
growth_respiration(GTW, m) == fmul(m, GTW)

\* A one-dimensional NumPy array: its elements, or the exception that the
\* operation meant to build it raised (err, "" when there is none).
NdArray(data) == [err |-> "", data |-> data]

NoArray(exc) == [err |-> exc, data |-> <<>>]

\* np.array(list): every element becomes a float64.
np_array(list) == NdArray([i \in 1..Len(list) |-> Elem(list[i])])

\* a * b on two one-dimensional arrays: element by element when the shapes
\* are equal, an array of length 1 is stretched to the other's shape
\* (broadcasting), any other pair of shapes raises ValueError.
np_multiply(a, b) ==
    LET x == a.data
        y == b.data
    IN  IF a.err # "" THEN a
        ELSE IF b.err # "" THEN b
        ELSE IF Len(x) = Len(y)
             THEN NdArray([i \in 1..Len(x) |-> fmul(x[i], y[i])])
        ELSE IF Len(x) = 1
             THEN NdArray([i \in 1..Len(y) |-> fmul(x[1], y[i])])
        ELSE IF Len(y) = 1
             THEN NdArray([i \in 1..Len(x) |-> fmul(x[i], y[1])])
        ELSE NoArray("ValueError")

\* np.sum of a one-dimensional array of fewer than 8 elements: the elements
\* are added to 0.0 one after the other, in index order.
RECURSIVE np_sum_from(_, _, _)
np_sum_from(data, i, acc) ==
    IF i > Len(data) THEN acc
    ELSE np_sum_from(data, i + 1, fadd(acc, data[i]))

np_sum(arr) ==
    IF arr.err # "" THEN Raise(arr.err)
    ELSE np_sum_from(arr.data, 1, Zero(0, TRUE))

\* maintenance_respiration with the product of the sums for the sum of the
\* products.
maintenance_respiration_sums(organ_weights, organ_coeffs) ==
    fmul(np_sum(np_array(organ_weights)), np_sum(np_array(organ_coeffs)))

\* maintenance_respiration:
\*   return np.sum(np.array(organ_weights) * np.array(organ_coeffs))
maintenance_respiration(organ_weights, organ_coeffs) ==
    np_sum(np_multiply(np_array(organ_weights), np_array(organ_coeffs)))

\* The literals 0.5 and 10 of the formulas.
Half == PyFloat(5, 10)

Ten == PyInt(10)

\* net_photosynthesis with the result clamped at zero: max(0.0, ...).
net_photosynthesis_clamped(Vc, Vo, Rd) ==
    LET An == fsub(fsub(Vc, fmul(Half, Vo)), Rd)
    IN  IF An.cls \in {"fin", "inf"} /\ An.sign = 1 THEN Zero(0, An.np) ELSE An

\* net_photosynthesis without the factor 0.5.
net_photosynthesis_no_half(Vc, Vo, Rd) == fsub(fsub(Vc, Vo), Rd)

\* net_photosynthesis: return Vc - 0.5 * Vo - Rd
net_photosynthesis(Vc, Vo, Rd) == fsub(fsub(Vc, fmul(Half, Vo)), Rd)

\* nitrogen_respiration_coefficient without the parentheses:
\* r_ref * Ni / N_ref.
nitrogen_respiration_coefficient_flat(Ni, r_ref, N_ref) ==
    fdiv(fmul(r_ref, Ni), N_ref)

\* nitrogen_respiration_coefficient with a guard on N_ref: 0.0 for N_ref = 0.
nitrogen_respiration_coefficient_guarded(Ni, r_ref, N_ref) ==
    IF IsZero(N_ref) THEN Zero(0, Ni.np) ELSE fmul(r_ref, fdiv(Ni, N_ref))

\* nitrogen_respiration_coefficient: return r_ref * (Ni / N_ref)
nitrogen_respiration_coefficient(Ni, r_ref, N_ref) ==
    fmul(r_ref, fdiv(Ni, N_ref))

\* relative_change with the quotient inverted.
relative_change_inverted(Ni, N_ref) == fdiv(N_ref, Ni)

\* make_relative_change_plot (nitrogen): relative_change = Ni / N_ref
relative_change(Ni, N_ref) == fdiv(Ni, N_ref)

\* temperature_respiration without the inner parentheses: T - T0 / 10.
temperature_respiration_flat(T, Rm0, Q10, T0) ==
    fmul(Rm0, fpow(Q10, fsub(T, fdiv(T0, Ten))))

\* temperature_respiration with T and T0 exchanged.
temperature_respiration_swapped(T, Rm0, Q10, T0) ==
    fmul(Rm0, fpow(Q10, fdiv(fsub(T0, T), Ten)))

\* temperature_respiration: return Rm0 * Q10**((T - T0) / 10)
temperature_respiration(T, Rm0, Q10, T0) ==
    fmul(Rm0, fpow(Q10, fdiv(fsub(T, T0), Ten)))

\* rubisco_rp with CO2 and O2 exchanged.
rubisco_rp_exchanged(CO2, O2, Rpmax, Ks, Kc, Ko) ==
    LET numerator   == fdiv(CO2, Ks)
        denominator == fadd(fdiv(O2, Kc), fadd(One(FALSE), fdiv(CO2, Ko)))
    IN  fdiv(fmul(Rpmax, numerator), denominator)

\* rubisco_rp with a guard on the denominator: 0.0 where it is zero.
rubisco_rp_guarded(CO2, O2, Rpmax, Ks, Kc, Ko) ==
    LET numerator   == fdiv(O2, Ks)
        denominator == fadd(fdiv(CO2, Kc), fadd(One(FALSE), fdiv(O2, Ko)))
    IN  IF IsZero(denominator) THEN Zero(0, denominator.np)
        ELSE fdiv(fmul(Rpmax, numerator), denominator)

\* rubisco_rp:
\*   numerator = (O2 / Ks)
\*   denominator = (CO2 / Kc) + (1 + O2 / Ko)
\*   return Rpmax * numerator / denominator
rubisco_rp(CO2, O2, Rpmax, Ks, Kc, Ko) ==
    LET numerator   == fdiv(O2, Ks)
        denominator == fadd(fdiv(CO2, Kc), fadd(One(FALSE), fdiv(O2, Ko)))
    IN  fdiv(fmul(Rpmax, numerator), denominator)

-----------------------------------------------------------------------------
(* The arguments the formulas are called with: the values the drivers and  *)
(* the documented scenarios pass, and the edge values the formulas do not  *)
(* guard against.                                                          *)

\* The longest organ list (the scripts use three and four organs).
MaxOrgans == 4

\* make_linear_response_plot: GTW = np.linspace(0, 30, 300), m_values; the
\* seasonal plot's m = 0.25; the component coefficients 0.17 and 2.01.
GTWValues == {PyInt(0), PyInt(6), PyInt(10), PyInt(15), PyInt(30)}

MValues ==
    {PyFloat(17, 100), PyFloat(20, 100), PyFloat(25, 100), PyFloat(30, 100),
     PyFloat(35, 100), PyFloat(201, 100)}

\* make_organ_contribution_plot: the organ dry weights of the four growth
\* stages; make_weight_sensitivity_plot: W_stem = W_root = 100.
WeightRows ==
    << <<150, 50, 80, 0>>, <<250, 120, 150, 50>>, <<200, 150, 120, 200>>,
       <<150, 160, 100, 300>>, <<100, 100, 100, 100>> >>

\* coeffs = [0.015, 0.010, 0.012, 0.008] (thousandths).
CoeffRow == <<15, 10, 12, 8>>

\* The first n entries of a row, the row repeating after its end.
Cycle(row, n) == [i \in 1..n |-> row[((i - 1) % Len(row)) + 1]]

WeightLists ==
    {[i \in 1..n |-> PyInt(Cycle(WeightRows[r], n)[i])] :
        r \in 1..Len(WeightRows), n \in 0..MaxOrgans}

CoeffLists ==
    {[i \in 1..n |-> PyFloat(Cycle(CoeffRow, n)[i], 1000)] : n \in 0..MaxOrgans}

\* make_component_plot: Vc in [0, 100], Vo_levels, Rd = 2; make_sensitivity_plot:
\* Rd_levels; and two oxygenation rates below the rounding of Vc - 0.5 * Vo.
VcValues == {PyInt(0), PyInt(1), PyInt(10), PyInt(21), PyInt(80), PyInt(100)}

Tiny(k) == Fin(0, <<1>>, -k, FALSE)

VoValues == {PyInt(0), PyInt(20), PyInt(40), PyInt(60), Tiny(52), Tiny(55)}

RdValues == {PyInt(0), PyInt(1), PyInt(2), PyInt(4)}

\* make_nitrogen_response_plot, make_organ_comparison_plot and
\* make_relative_change_plot: the reference contents and coefficients, Ni
\* between 0.5 and 6.0; and the unguarded N_ref = 0, r_ref = 0.
NRefValues ==
    {PyFloat(15, 10), PyFloat(20, 10), PyFloat(30, 10), PyFloat(40, 10),
     PyFloat(0, 10)}

NiValues == NRefValues \cup {PyFloat(5, 10), PyFloat(45, 10), PyFloat(60, 10)}

RRefValues ==
    {PyFloat(10, 1000), PyFloat(12, 1000), PyFloat(15, 1000),
     PyFloat(18, 1000), PyFloat(1, 64), PyFloat(0, 1000)}

\* make_temperature_response_plot and make_q10_sensitivity_plot: Rm0 = 5.0,
\* T0 = 25, Q10_values, temperatures; and reference temperatures that are
\* no whole number.
T0Values == {PyInt(25), PyInt(20), PyFloat(223, 10), PyFloat(1, 10)}

TValues ==
    T0Values \cup {fadd(T0, PyInt(10)) : T0 \in T0Values}
             \cup {PyInt(10), PyInt(35)}

Rm0Values == {PyFloat(50, 10), PyFloat(32, 10)}

Q10Values == {PyFloat(15, 10), PyFloat(20, 10), PyFloat(25, 10), PyFloat(30, 10)}

\* rubisco make_plot: co2 = np.linspace(1, 1000, 300), o2_levels (per cent),
\* Rpmax = 20.0, Ks = 2.5, Kc = 40.0, Ko = 25.0; and the unguarded zeros.
\* co2_range is a parameter: -40 and -200 are concentrations at which the
\* denominator of rubisco_rp vanishes (with O2 = 0 and O2 = 100).
CO2Values ==
    {PyInt(0), PyInt(1), PyInt(400), PyInt(1000),
     fneg(PyInt(40)), fneg(PyInt(200))}

O2PctValues == {PyInt(0), PyInt(10), PyInt(21), PyInt(40)}

RpmaxValues == {PyFloat(200, 10), PyFloat(0, 10)}

KsValues == {PyFloat(25, 10), PyFloat(0, 10)}

KcValues == {PyFloat(400, 10), PyFloat(0, 10)}

KoValues == {PyFloat(250, 10), PyFloat(0, 10)}

\* How a formula is called: on Python scalars, on one array and scalars (the
\* two-dimensional plots), or on arrays throughout (the meshgrid of the
\* three-dimensional plot).
CallModes == {"scalar", "array", "meshgrid"}

-----------------------------------------------------------------------------
(* The state: the call of a formula in progress and what it evaluated to;   *)
(* the arrays a plotting function has computed; the run of a script.       *)

VARIABLES
    call,           \* the formula being evaluated and its arguments
    result,         \* what the formula evaluated to
    plot,           \* the plotting function computing its arrays, and the arrays
    np_random,      \* draws made so far from NumPy's global generator
    script,         \* the script being run ("none": no process)
    chart,          \* index of the chart function the script is in
    pc,             \* the statement that chart function is at
    ext,            \* index of the savefig loop in ['png', 'pdf']
    figures,        \* the path 'figures': "absent", "dir" or "file"
    files,          \* the files in the directory figures
    written,        \* the files this run has written
    stdout,         \* the lines this run has printed
    styles,         \* the themes matplotlib's style library has
    theme,          \* the theme in effect
    open_figures,   \* figures created and not closed
    raised,         \* the exception that ended the run ("": none)
    runs,           \* script runs so far
    content,        \* for each file in figures, the chart that wrote it
    history,        \* the runs that have ended: script, exception, files
    rc,             \* the rcParams keys the code of the process has set
    __name__        \* of the script's module ("": no process)

formulaVars == <<call, result>>

dataVars == <<plot, np_random>>

scriptVars ==
    <<script, chart, pc, ext, figures, files, written, stdout, styles, theme,
      open_figures, raised, runs, content, history, rc, __name__>>

vars == <<formulaVars, dataVars, scriptVars>>

NoCall == [fn |-> "none"]

NoResult == [cls |-> "none", sign |-> 0, m |-> <<>>, e |-> 0, np |-> FALSE]

NoPlot == [fn |-> "none"]

\* No formula is being evaluated.
FormulaIdle ==
    /\ call = NoCall
    /\ result = NoResult

\* No plotting function is computing, no draw has been made.
DataIdle ==
    /\ plot = NoPlot
    /\ np_random = 0

\* No script has been started.
ProcessIdle ==
    /\ script = "none"
    /\ chart = 0
    /\ pc = "none"
    /\ ext = 0
    /\ files = {}
    /\ written = {}
    /\ stdout = <<>>
    /\ theme = "default"
    /\ open_figures = 0
    /\ raised = ""
    /\ runs = 0
    /\ content = <<>>
    /\ history = <<>>
    /\ rc = {}
    /\ __name__ = ""

\* No script has been started, in an empty working directory.
ScriptIdle ==
    /\ ProcessIdle
    /\ figures = "absent"
    /\ styles = {}

Init ==
    /\ FormulaIdle
    /\ DataIdle
    /\ ScriptIdle

\* The swept argument: an array element unless the call is on scalars.
Swept(v, mode) == IF mode = "scalar" THEN v ELSE Elem(v)

\* An argument that is an array only in the meshgrid call.
Grid(v, mode) == IF mode = "meshgrid" THEN Elem(v) ELSE v

CallGrowthRespiration ==
    /\ call.fn = "none"
    /\ \E GTW \in GTWValues, m \in MValues, mode \in {"scalar", "array"} :
        /\ call' = [fn |-> "growth_respiration",
                    GTW |-> Swept(GTW, mode), m |-> m]
        /\ result' = growth_respiration(Swept(GTW, mode), m)
    /\ UNCHANGED <<dataVars, scriptVars>>

CallMaintenanceRespiration ==
    /\ call.fn = "none"
    /\ \E organ_weights \in WeightLists, organ_coeffs \in CoeffLists :
        /\ call' = [fn |-> "maintenance_respiration",
                    organ_weights |-> organ_weights,
                    organ_coeffs |-> organ_coeffs]
        /\ result' = maintenance_respiration(organ_weights, organ_coeffs)
    /\ UNCHANGED <<dataVars, scriptVars>>

CallNetPhotosynthesis ==
    /\ call.fn = "none"
    /\ \E Vc \in VcValues, Vo \in VoValues, Rd \in RdValues,
          mode \in {"scalar", "array"} :
        /\ call' = [fn |-> "net_photosynthesis",
                    Vc |-> Swept(Vc, mode), Vo |-> Vo, Rd |-> Rd]
        /\ result' = net_photosynthesis(Swept(Vc, mode), Vo, Rd)
    /\ UNCHANGED <<dataVars, scriptVars>>

CallNitrogenRespirationCoefficient ==
    /\ call.fn = "none"
    /\ \E Ni \in NiValues, r_ref \in RRefValues, N_ref \in NRefValues,
          mode \in {"scalar", "array"} :
        /\ call' = [fn |-> "nitrogen_respiration_coefficient",
                    Ni |-> Swept(Ni, mode), r_ref |-> r_ref, N_ref |-> N_ref]
        /\ result' = nitrogen_respiration_coefficient(Swept(Ni, mode),
                                                      r_ref, N_ref)
    /\ UNCHANGED <<dataVars, scriptVars>>

\* make_temperature_response_plot sweeps T, make_q10_sensitivity_plot Q10.
CallTemperatureRespiration ==
    /\ call.fn = "none"
    /\ \E T \in TValues, Rm0 \in Rm0Values, Q10 \in Q10Values,
          T0 \in T0Values, mode \in {"scalar", "array"} :
        /\ call' = [fn |-> "temperature_respiration",
                    T |-> T, Rm0 |-> Rm0, Q10 |-> Swept(Q10, mode), T0 |-> T0]
        /\ result' = temperature_respiration(T, Rm0, Swept(Q10, mode), T0)
    /\ UNCHANGED <<dataVars, scriptVars>>

\* make_plot: o2 = o2_pct * 10; make_3d_plot: O2 = O2_PCT * 10.
CallRubiscoRp ==
    /\ call.fn = "none"
    /\ \E CO2 \in CO2Values, o2_pct \in O2PctValues, Rpmax \in RpmaxValues,
          Ks \in KsValues, Kc \in KcValues, Ko \in KoValues,
          mode \in CallModes :
        LET O2 == fmul(Grid(o2_pct, mode), Ten)
        IN  /\ call' = [fn |-> "rubisco_rp", mode |-> mode,
                        CO2 |-> Swept(CO2, mode), O2 |-> O2, Rpmax |-> Rpmax,
                        Ks |-> Ks, Kc |-> Kc, Ko |-> Ko]
            /\ result' = rubisco_rp(Swept(CO2, mode), O2, Rpmax, Ks, Kc, Ko)
    /\ UNCHANGED <<dataVars, scriptVars>>

\* The call returns (or its exception propagates) to the caller.
Return ==
    /\ call.fn # "none"
    /\ call' = NoCall
    /\ result' = NoResult
    /\ UNCHANGED <<dataVars, scriptVars>>

Next ==
    \/ CallGrowthRespiration
    \/ CallMaintenanceRespiration
    \/ CallNetPhotosynthesis
    \/ CallNitrogenRespirationCoefficient
    \/ CallTemperatureRespiration
    \/ CallRubiscoRp
    \/ Return

Spec == Init /\ [][Next]_vars

-----------------------------------------------------------------------------
(* The arrays of the plots: make_3d_plot of plot_rubisco_rp and make_plot   *)
(* of plot_rp_pg.  NumPy computes an array element by element, each element *)
(* from the elements at the same index; the model follows one index through *)
(* the function and records the shape of the arrays.                        *)

\* np.linspace(1, 1000, 100), np.linspace(5, 50, 100)
GridPoints == 100

\* x = np.linspace(0, pg_max, 200)
PgGridPoints == 200

\* rng = np.random.default_rng(42); n = 12
Seed == 42

SampleCount == 12

\* The most draws made from the global generator between two plots.
MaxDraws == 2

\* np.linspace(start, stop, num)[k - 1] for num > 1: step = (stop - start) /
\* (num - 1), y = arange(num) * step + start (y / div * delta where the step
\* is zero), and the last element is set to stop.
np_linspace(start, stop, num, k) ==
    LET div   == FromNat(num - 1, TRUE)
        delta == fsub(Elem(stop), Elem(start))
        step  == fdiv(delta, div)
        y     == FromNat(k - 1, TRUE)
    IN  IF k = num THEN Elem(stop)
        ELSE IF IsZero(step)
             THEN fadd(fmul(fdiv(y, div), delta), Elem(start))
        ELSE fadd(fmul(y, step), Elem(start))

\* np.meshgrid with the two axes exchanged (indexing='ij').
np_meshgrid_ij(j, i) == [x |-> j, y |-> i]

\* X, Y = np.meshgrid(x, y): X[j][i] is x[i] and Y[j][i] is y[j]; both have
\* the shape (len(y), len(x)).
np_meshgrid(j, i) == [x |-> i, y |-> j]

np_meshgrid_shape(len_x, len_y) == <<len_y, len_x>>

\* make_3d_plot, followed at row j and column i of its arrays:
\*   co2 = np.linspace(1, 1000, 100); o2_pct = np.linspace(5, 50, 100)
\*   CO2, O2_PCT = np.meshgrid(co2, o2_pct)
\*   O2 = O2_PCT * 10
\*   RP = rubisco_rp(CO2, O2, Rpmax, Ks, Kc, Ko)
make_3d_plot(Rpmax, Ks, Kc, Ko, j, i) ==
    LET at     == np_meshgrid(j, i)
        CO2    == np_linspace(PyInt(1), PyInt(1000), GridPoints, at.x)
        O2_PCT == np_linspace(PyInt(5), PyInt(50), GridPoints, at.y)
        O2     == fmul(O2_PCT, Ten)
    IN  [fn |-> "make_3d_plot",
         Rpmax |-> Rpmax, Ks |-> Ks, Kc |-> Kc, Ko |-> Ko,
         shape |-> np_meshgrid_shape(GridPoints, GridPoints),
         j |-> j, i |-> i,
         CO2 |-> CO2, O2_PCT |-> O2_PCT, O2 |-> O2,
         RP |-> rubisco_rp(CO2, O2, Rpmax, Ks, Kc, Ko)]

\* A generator: its seed and the number of values drawn from it.  The
\* stream of a bit generator is a fixed function of the seed and the
\* position; the model takes its values from the two tables below, not from
\* PCG64.
next_double(rng, k) ==
    Dec((rng.seed * 31 + (rng.pos + k) * 17) % 64, 64, TRUE)

next_gauss(rng, k) ==
    LET v == ((rng.seed * 13 + (rng.pos + k) * 29) % 65) - 32
    IN  IF v < 0 THEN fneg(Dec(-v, 16, TRUE)) ELSE Dec(v, 16, TRUE)

\* The module-level generator of np.random in place of a new one: the draws
\* continue where the last draw from it, anywhere in the process, stopped.
default_rng_global(seed) == [seed |-> 0, pos |-> np_random]

\* np.random.default_rng(seed): a new generator at the start of its stream.
default_rng(seed) == [seed |-> seed, pos |-> 0]

\* The generator after size draws.
Advance(rng, size) == [rng EXCEPT !.pos = @ + size]

\* rng.uniform(low, high, size): low + (high - low) * next_double()
rng_uniform(rng, low, high, size) ==
    [i \in 1..size |-> fadd(low, fmul(fsub(high, low), next_double(rng, i)))]

\* rng.normal(loc, scale, size): loc + scale * next_gauss()
rng_normal(rng, loc, scale, size) ==
    [i \in 1..size |-> fadd(loc, fmul(scale, next_gauss(rng, i)))]

\* The literals of make_plot.
Tenth == PyFloat(1, 10)

NineteenTwentieths == PyFloat(95, 100)

ThreeHundredths == PyFloat(3, 100)

OneAndOneTwentieth == PyFloat(105, 100)

\* make_plot with alpha clamped to [alpha_min, alpha_max].
make_plot_clamped(alpha, alpha_min, alpha_max, pg_max, k) ==
    LET a         == IF FLt(alpha, alpha_min) THEN alpha_min
                     ELSE IF FLt(alpha_max, alpha) THEN alpha_max ELSE alpha
        x         == np_linspace(PyInt(0), pg_max, PgGridPoints, k)
        rng       == default_rng(Seed)
        n         == SampleCount
        pg_points == rng_uniform(rng, fmul(Tenth, pg_max),
                                 fmul(NineteenTwentieths, pg_max), n)
        noise     == rng_normal(Advance(rng, n), PyInt(0),
                                fmul(fmul(ThreeHundredths, a), pg_max), n)
    IN  [fn |-> "make_plot",
         alpha |-> alpha, alpha_min |-> alpha_min, alpha_max |-> alpha_max,
         pg_max |-> pg_max, k |-> k, len |-> PgGridPoints,
         x |-> x, y_typ |-> fmul(a, x),
         y_min |-> fmul(alpha_min, x), y_max |-> fmul(alpha_max, x),
         band_label |-> <<alpha_min, alpha_max>>,
         pg_points |-> pg_points,
         rp_points |-> [i \in 1..n |-> fadd(fmul(a, pg_points[i]), noise[i])],
         xlim |-> <<PyInt(0), pg_max>>,
         ylim |-> <<PyInt(0),
                    fmul(fmul(alpha_max, pg_max), OneAndOneTwentieth)>>]

\* make_plot of plot_rp_pg, followed at index k of its grid:
\*   x = np.linspace(0, pg_max, 200)
\*   y_typ = alpha * x; y_min = alpha_min * x; y_max = alpha_max * x
\*   fill_between(x, y_min, y_max, label=f'... {alpha_min:.2f}–{alpha_max:.2f}')
\*   rng = np.random.default_rng(42); n = 12
\*   pg_points = rng.uniform(0.1 * pg_max, 0.95 * pg_max, n)
\*   rp_points = alpha * pg_points + rng.normal(0, 0.03 * alpha * pg_max, n)
\*   set_xlim(0, pg_max); set_ylim(0, alpha_max * pg_max * 1.05)
make_plot(alpha, alpha_min, alpha_max, pg_max, k) ==
    LET x         == np_linspace(PyInt(0), pg_max, PgGridPoints, k)
        rng       == default_rng(Seed)
        n         == SampleCount
        pg_points == rng_uniform(rng, fmul(Tenth, pg_max),
                                 fmul(NineteenTwentieths, pg_max), n)
        noise     == rng_normal(Advance(rng, n), PyInt(0),
                                fmul(fmul(ThreeHundredths, alpha), pg_max), n)
    IN  [fn |-> "make_plot",
         alpha |-> alpha, alpha_min |-> alpha_min, alpha_max |-> alpha_max,
         pg_max |-> pg_max, k |-> k, len |-> PgGridPoints,
         x |-> x, y_typ |-> fmul(alpha, x),
         y_min |-> fmul(alpha_min, x), y_max |-> fmul(alpha_max, x),
         band_label |-> <<alpha_min, alpha_max>>,
         pg_points |-> pg_points,
         rp_points |->
             [i \in 1..n |-> fadd(fmul(alpha, pg_points[i]), noise[i])],
         xlim |-> <<PyInt(0), pg_max>>,
         ylim |-> <<PyInt(0),
                    fmul(fmul(alpha_max, pg_max), OneAndOneTwentieth)>>]

\* The rows and columns the model follows.
GridProbes == {1, 2, 50, GridPoints}

PgGridProbes == {1, 2, PgGridPoints}

\* alpha = 0.45, alpha_min = 0.30, alpha_max = 0.60, pg_max = 40.0; and
\* ratios below, at and above the range, a second range, a second pg_max.
AlphaValues == {PyFloat(45, 100), PyFloat(20, 100), PyFloat(70, 100)}

AlphaRanges == {<<PyFloat(30, 100), PyFloat(60, 100)>>,
                <<PyFloat(40, 100), PyFloat(50, 100)>>}

PgMaxValues == {PyFloat(400, 10), PyFloat(200, 10)}

\* make_3d_plot is called on its defaults by the script; Rpmax, Ks, Kc and Ko
\* are parameters.
Make3dPlot ==
    /\ plot.fn = "none"
    /\ \E Rpmax \in RpmaxValues, Ks \in KsValues, Kc \in KcValues,
          Ko \in {PyFloat(250, 10)},
          j \in GridProbes, i \in GridProbes :
        plot' = make_3d_plot(Rpmax, Ks, Kc, Ko, j, i)
    /\ UNCHANGED <<np_random, formulaVars, scriptVars>>

MakePlot ==
    /\ plot.fn = "none"
    /\ \E alpha \in AlphaValues, range \in AlphaRanges,
          pg_max \in PgMaxValues, k \in PgGridProbes :
        plot' = make_plot(alpha, range[1], range[2], pg_max, k)
    /\ UNCHANGED <<np_random, formulaVars, scriptVars>>

\* Some other code of the process draws from the global generator.
DrawElsewhere ==
    /\ plot.fn = "none"
    /\ np_random < MaxDraws
    /\ np_random' = np_random + 1
    /\ UNCHANGED <<plot, formulaVars, scriptVars>>

\* The plotting function returns; its arrays go out of scope.
PlotReturn ==
    /\ plot.fn # "none"
    /\ plot' = NoPlot
    /\ UNCHANGED <<np_random, formulaVars, scriptVars>>

\* make_3d_plot, called again and again.
SurfaceNext ==
    \/ Make3dPlot
    \/ PlotReturn

SurfaceSpec == Init /\ [][SurfaceNext]_vars

\* make_plot of plot_rp_pg, called again and again in a process that draws
\* random numbers of its own.
SampleNext ==
    \/ MakePlot
    \/ DrawElsewhere
    \/ PlotReturn

SampleSpec == Init /\ [][SampleNext]_vars

(***************************************************************************)
(* The totals the drivers compute inline: the composite coefficients and    *)
(* the stacked fractions of make_composite_coefficient_plot, the stacked    *)
(* bands of make_stacked_plot, the stacked bars of                          *)
(* make_organ_contribution_plot and the total line of                       *)
(* make_weight_sensitivity_plot.                                            *)
(***************************************************************************)

\* A decimal literal of two places, by its hundredths; -0.01 is the negation
\* of the literal 0.01.
Hundredths(n) == IF n < 0 THEN fneg(PyFloat(-n, 100)) ELSE PyFloat(n, 100)

\* m_j = np.array([0.17, 2.01, 1.72, 0.66, -0.01])
ComponentCoefficients == <<17, 201, 172, 66, -1>>

\* fractions of the organs leaf, stem, root, grain, in hundredths.
Fractions ==
    << <<30, 20, 10, 15, 25>>, <<45, 8, 5, 35, 7>>, <<40, 12, 8, 30, 10>>,
       <<60, 20, 15, 3, 2>> >>

\* make_composite_coefficient_plot with the coefficients summed without
\* their fractions.
make_composite_coefficient_plot_unweighted(organ) ==
    LET m_j == np_array([j \in 1..5 |-> Hundredths(ComponentCoefficients[j])])
        f_j == np_array([j \in 1..5 |-> Hundredths(Fractions[organ][j])])
    IN  [fn     |-> "make_composite_coefficient_plot",
         organ  |-> organ,
         f_j    |-> f_j.data,
         m_j    |-> m_j.data,
         bottom |-> np_sum_from(f_j.data, 1, Zero(0, TRUE)),
         m_i    |-> np_sum(m_j)]

\* make_composite_coefficient_plot, followed at one organ:
\*   bottom = np.zeros(len(organs)); for each component: bottom += values
\*   f_j = fractions[organ]; m_i = np.sum(f_j * m_j)
make_composite_coefficient_plot(organ) ==
    LET m_j == np_array([j \in 1..5 |-> Hundredths(ComponentCoefficients[j])])
        f_j == np_array([j \in 1..5 |-> Hundredths(Fractions[organ][j])])
    IN  [fn     |-> "make_composite_coefficient_plot",
         organ  |-> organ,
         f_j    |-> f_j.data,
         m_j    |-> m_j.data,
         bottom |-> np_sum_from(f_j.data, 1, Zero(0, TRUE)),
         m_i    |-> np_sum(np_multiply(f_j, m_j))]

\* make_stacked_plot with the photorespiration loss added, not subtracted.
make_stacked_plot_unsigned(Vc_max, Vo, Rd, k) ==
    LET Vc               == np_linspace(PyInt(0), Vc_max, 300, k)
        photorespiration == fmul(Half, Vo)
        dark_respiration == fneg(Rd)
    IN  [fn     |-> "make_stacked_plot",
         Vc_max |-> Vc_max, Vo |-> Vo, Rd |-> Rd, k |-> k,
         Vc     |-> Vc,
         An     |-> net_photosynthesis(Vc, Vo, Rd),
         photorespiration_edge |-> fadd(Vc, photorespiration),
         dark_respiration_edge |->
             fadd(fadd(Vc, photorespiration), dark_respiration)]

\* make_stacked_plot, followed at grid point k:
\*   Vc = np.linspace(0, Vc_max, 300)
\*   photorespiration = -0.5 * Vo; dark_respiration = -Rd
\*   An = net_photosynthesis(Vc, Vo, Rd)
\*   bands between Vc, Vc + photorespiration and
\*   Vc + photorespiration + dark_respiration
make_stacked_plot(Vc_max, Vo, Rd, k) ==
    LET Vc               == np_linspace(PyInt(0), Vc_max, 300, k)
        photorespiration == fmul(fneg(Half), Vo)
        dark_respiration == fneg(Rd)
    IN  [fn     |-> "make_stacked_plot",
         Vc_max |-> Vc_max, Vo |-> Vo, Rd |-> Rd, k |-> k,
         Vc     |-> Vc,
         An     |-> net_photosynthesis(Vc, Vo, Rd),
         photorespiration_edge |-> fadd(Vc, photorespiration),
         dark_respiration_edge |->
             fadd(fadd(Vc, photorespiration), dark_respiration)]

\* make_organ_contribution_plot with the bar of the last organ left out of
\* the stack.
make_organ_contribution_plot_short(stage) ==
    LET weights == [i \in 1..4 |-> PyInt(WeightRows[stage][i])]
        coeffs  == [i \in 1..4 |-> PyFloat(CoeffRow[i], 1000)]
        contributions ==
            [i \in 1..3 |-> fmul(Elem(weights[i]), Elem(coeffs[i]))]
    IN  [fn      |-> "make_organ_contribution_plot",
         stage   |-> stage,
         weights |-> weights,
         coeffs  |-> coeffs,
         bottom  |-> np_sum_from(contributions, 1, Zero(0, TRUE))]

\* make_organ_contribution_plot, followed at one growth stage:
\*   contributions = weights * coeffs
\*   bottom = np.zeros(len(growth_stages))
\*   for each organ: bottom += contributions[:, i]
make_organ_contribution_plot(stage) ==
    LET weights == [i \in 1..4 |-> PyInt(WeightRows[stage][i])]
        coeffs  == [i \in 1..4 |-> PyFloat(CoeffRow[i], 1000)]
        contributions ==
            [i \in 1..4 |-> fmul(Elem(weights[i]), Elem(coeffs[i]))]
    IN  [fn      |-> "make_organ_contribution_plot",
         stage   |-> stage,
         weights |-> weights,
         coeffs  |-> coeffs,
         bottom  |-> np_sum_from(contributions, 1, Zero(0, TRUE))]

\* make_weight_sensitivity_plot, followed at grid point k:
\*   W_leaf = np.linspace(0, 400, 300)
\*   Rm_leaf = r_leaf * W_leaf
\*   Rm_stem = r_stem * W_stem * np.ones_like(W_leaf), Rm_root likewise
\*   Rm_total = Rm_leaf + Rm_stem + Rm_root
make_weight_sensitivity_plot(k) ==
    LET W_leaf  == np_linspace(PyInt(0), PyInt(400), 300, k)
        Rm_leaf == fmul(PyFloat(15, 1000), W_leaf)
        Rm_stem == fmul(fmul(PyFloat(10, 1000), PyInt(100)), One(TRUE))
        Rm_root == fmul(fmul(PyFloat(12, 1000), PyInt(100)), One(TRUE))
    IN  [fn       |-> "make_weight_sensitivity_plot",
         k        |-> k,
         W_leaf   |-> W_leaf,
         Rm_leaf  |-> Rm_leaf,
         Rm_stem  |-> Rm_stem,
         Rm_root  |-> Rm_root,
         Rm_total |-> fadd(fadd(Rm_leaf, Rm_stem), Rm_root)]

\* The grid points of the 300-point grids the model follows.
LineProbes == {1, 2, 3, 100, 150, 299, 300}

\* make_stacked_plot: Vc_max = 100.0, Vo = 40.0, Rd = 2.0.
VcMaxValues == {PyFloat(1000, 10), PyFloat(500, 10)}

MakeCompositeCoefficientPlot ==
    /\ plot.fn = "none"
    /\ \E organ \in 1..4 : plot' = make_composite_coefficient_plot(organ)
    /\ UNCHANGED <<np_random, formulaVars, scriptVars>>

MakeStackedPlot ==
    /\ plot.fn = "none"
    /\ \E Vc_max \in VcMaxValues, Vo \in VoValues, Rd \in RdValues,
          k \in LineProbes :
        plot' = make_stacked_plot(Vc_max, Vo, Rd, k)
    /\ UNCHANGED <<np_random, formulaVars, scriptVars>>

MakeOrganContributionPlot ==
    /\ plot.fn = "none"
    /\ \E stage \in 1..4 : plot' = make_organ_contribution_plot(stage)
    /\ UNCHANGED <<np_random, formulaVars, scriptVars>>

MakeWeightSensitivityPlot ==
    /\ plot.fn = "none"
    /\ \E k \in 1..300 : plot' = make_weight_sensitivity_plot(k)
    /\ UNCHANGED <<np_random, formulaVars, scriptVars>>

\* make_stacked_plot, called again and again.
StackedNext ==
    \/ MakeStackedPlot
    \/ PlotReturn

StackedSpec == Init /\ [][StackedNext]_vars

\* The drivers of the composite coefficients and of the maintenance totals,
\* called again and again.
TotalsNext ==
    \/ MakeCompositeCoefficientPlot
    \/ MakeOrganContributionPlot
    \/ MakeWeightSensitivityPlot
    \/ PlotReturn

TotalsSpec == Init /\ [][TotalsNext]_vars

(***************************************************************************)
(* The sweep loops: each plots one series per level of the swept quantity   *)
(* and takes the style of series i from parallel lists, at index i or at    *)
(* index i % len(list).                                                     *)
(***************************************************************************)

\* The longest list of levels a caller passes.
MaxLevels == 9

\* The style lists of the loops whose index wraps.
WrappedStyles ==
    [linestyles |-> <<"-", "--", "-.", ":">>,
     colors     |-> <<"black", "0.3", "0.5", "0.7">>,
     markers    |-> <<"o", "s", "^", "d">>,
     linewidths |-> <<>>]

\* A sweep loop: the script and function it is in, the number of levels it
\* sweeps (0: the caller passes the list), whether the index wraps, and its
\* style lists.
SweepLoops ==
    << [script |-> "plot_growth_respiration",
        fn |-> "make_linear_response_plot", levels |-> 4, wraps |-> FALSE,
        styles |-> [linestyles |-> <<"--", "-", "-.", ":">>,
                    colors     |-> <<"0.5", "black", "0.3", "0.6">>,
                    markers    |-> <<"s", "o", "^", "d">>,
                    linewidths |-> <<"2", "3", "2", "2">>]],
       [script |-> "plot_net_photosynthesis",
        fn |-> "make_component_plot", levels |-> 0, wraps |-> TRUE,
        styles |-> WrappedStyles],
       [script |-> "plot_net_photosynthesis",
        fn |-> "make_sensitivity_plot", levels |-> 0, wraps |-> TRUE,
        styles |-> WrappedStyles],
       [script |-> "plot_rubisco_rp",
        fn |-> "make_plot", levels |-> 0, wraps |-> TRUE,
        styles |-> WrappedStyles],
       [script |-> "plot_temperature_respiration",
        fn |-> "make_temperature_response_plot", levels |-> 4,
        wraps |-> TRUE, styles |-> WrappedStyles],
       [script |-> "plot_temperature_respiration",
        fn |-> "make_q10_sensitivity_plot", levels |-> 5, wraps |-> FALSE,
        styles |-> [linestyles |-> <<":", "-.", "--", "-", "-">>,
                    colors     |-> <<"0.7", "0.5", "0.3", "black", "0.2">>,
                    markers    |-> <<"d", "^", "s", "o", "p">>,
                    linewidths |-> <<"2", "2", "2", "2.5", "3">>]],
       [script |-> "plot_temperature_respiration",
        fn |-> "make_relative_change_plot", levels |-> 4, wraps |-> TRUE,
        styles |-> WrappedStyles],
       [script |-> "plot_nitrogen_respiration",
        fn |-> "make_nitrogen_response_plot", levels |-> 3, wraps |-> FALSE,
        styles |-> [linestyles |-> <<"--", "-", "-.">>,
                    colors     |-> <<"0.5", "black", "0.3">>,
                    markers    |-> <<"s", "o", "^">>,
                    linewidths |-> <<"2", "3", "2">>]],
       [script |-> "plot_nitrogen_respiration",
        fn |-> "make_organ_comparison_plot", levels |-> 3, wraps |-> FALSE,
        styles |-> [linestyles |-> <<"-", "--", "-.">>,
                    colors     |-> <<"black", "0.4", "0.6">>,
                    markers    |-> <<"o", "s", "^">>,
                    linewidths |-> <<"2.5", "2.5", "2.5">>]],
       [script |-> "plot_nitrogen_respiration",
        fn |-> "make_relative_change_plot", levels |-> 3, wraps |-> FALSE,
        styles |-> [linestyles |-> <<"--", "-", "-.">>,
                    colors     |-> <<"0.5", "black", "0.3">>,
                    markers    |-> <<"s", "o", "^">>,
                    linewidths |-> <<"2", "3", "2">>]] >>

\* list[i] of Python for i >= 0: the element, or IndexError.
list_getitem(list, i) ==
    IF i < Len(list) THEN list[i + 1] ELSE "IndexError"

\* The index without the wrap: list[i] in every loop.
style_index_unwrapped(loop, list, i) == i

\* The index a loop takes into a style list: i % len(list) or i.
style_index(loop, list, i) ==
    IF loop.wraps THEN i % Len(list) ELSE i

\* ls, color, marker and lw of series i; a loop without a linewidths list
\* passes a literal width.
style_record(loop, i) ==
    [ls     |-> list_getitem(loop.styles.linestyles,
                             style_index(loop, loop.styles.linestyles, i)),
     color  |-> list_getitem(loop.styles.colors,
                             style_index(loop, loop.styles.colors, i)),
     marker |-> list_getitem(loop.styles.markers,
                             style_index(loop, loop.styles.markers, i)),
     lw     |-> IF loop.styles.linewidths = <<>> THEN "literal"
                ELSE list_getitem(loop.styles.linewidths,
                         style_index(loop, loop.styles.linewidths, i))]

\* The body of a sweep loop at series i of n.
sweep(loop, n, i) ==
    [fn |-> "sweep", loop |-> loop, n |-> n, i |-> i,
     style |-> style_record(loop, i)]

\* A plotting function enters its sweep loop: for i, level in
\* enumerate(levels), first pass.
SweepEnter ==
    /\ plot.fn = "none"
    /\ \E l \in DOMAIN SweepLoops :
          \E n \in IF SweepLoops[l].levels = 0 THEN 1..MaxLevels
                   ELSE {SweepLoops[l].levels} :
              plot' = sweep(SweepLoops[l], n, 0)
    /\ UNCHANGED <<np_random, formulaVars, scriptVars>>

\* The next pass of the loop.
SweepStep ==
    /\ plot.fn = "sweep"
    /\ plot.style.ls # "IndexError"
    /\ plot.i + 1 < plot.n
    /\ plot' = sweep(plot.loop, plot.n, plot.i + 1)
    /\ UNCHANGED <<np_random, formulaVars, scriptVars>>

\* The loop ends, after its last pass or on an IndexError.
SweepLeave ==
    /\ plot.fn = "sweep"
    /\ plot.i + 1 = plot.n \/ plot.style.ls = "IndexError"
    /\ plot' = NoPlot
    /\ UNCHANGED <<np_random, formulaVars, scriptVars>>

SweepNext ==
    \/ SweepEnter
    \/ SweepStep
    \/ SweepLeave

SweepSpec == Init /\ [][SweepNext]_vars

(***************************************************************************)
(* The run of a script: the __main__ block calls the chart functions one    *)
(* after the other and prints a line after each.  Every chart function      *)
(* creates the directory figures, selects a theme, draws, saves the figure  *)
(* once per format and closes it.  An exception ends the run at the         *)
(* statement that raised it.                                                *)
(***************************************************************************)

MaxRuns == 2

Scripts ==
    {"plot_growth_respiration", "plot_maintenance_respiration",
     "plot_net_photosynthesis", "plot_nitrogen_respiration", "plot_rp_pg",
     "plot_rubisco_rp", "plot_temperature_respiration"}

\* A chart function whose confirmation line names the formats of the module
\* docstring.
Chart_as_documented(fn, name, style, says) ==
    [fn |-> fn, name |-> name, style |-> style,
     line |-> [name |-> says, exts |-> <<"png", "svg", "pdf", "eps">>]]

\* A chart function: its name, the base name it saves under, whether it
\* selects a theme, and the base name and formats its confirmation line
\* names.
Chart(fn, name, style, says) ==
    [fn |-> fn, name |-> name, style |-> style,
     line |-> [name |-> says, exts |-> <<"png", "pdf">>]]

\* The chart functions the __main__ block of a script calls, in order.
main(s) ==
    CASE s = "plot_growth_respiration" ->
           << Chart("make_linear_response_plot", "growth_respiration", TRUE,
                    "growth_respiration"),
              Chart("make_coefficient_comparison_plot",
                    "growth_respiration_coefficients", TRUE,
                    "growth_respiration_coefficients"),
              Chart("make_daily_pattern_plot", "growth_respiration_seasonal",
                    TRUE, "growth_respiration_seasonal"),
              Chart("make_composite_coefficient_plot",
                    "growth_respiration_composite", TRUE,
                    "growth_respiration_composite") >>
      [] s = "plot_maintenance_respiration" ->
           << Chart("make_organ_contribution_plot",
                    "maintenance_respiration_organs", TRUE,
                    "maintenance_respiration_organs"),
              Chart("make_weight_sensitivity_plot",
                    "maintenance_respiration_sensitivity", TRUE,
                    "maintenance_respiration_sensitivity"),
              Chart("make_coefficient_comparison_plot",
                    "maintenance_respiration_coefficients", TRUE,
                    "maintenance_respiration_coefficients") >>
      [] s = "plot_net_photosynthesis" ->
           << Chart("make_component_plot", "net_photosynthesis", TRUE,
                    "net_photosynthesis"),
              Chart("make_stacked_plot", "net_photosynthesis_stacked", TRUE,
                    "net_photosynthesis_stacked"),
              Chart("make_sensitivity_plot", "net_photosynthesis_vo_response",
                    TRUE, "net_photosynthesis_vo_response") >>
      [] s = "plot_nitrogen_respiration" ->
           << Chart("make_nitrogen_response_plot", "nitrogen_respiration",
                    TRUE, "nitrogen_respiration"),
              Chart("make_organ_comparison_plot",
                    "nitrogen_respiration_organs", TRUE,
                    "nitrogen_respiration_organs"),
              Chart("make_relative_change_plot",
                    "nitrogen_respiration_relative", TRUE,
                    "nitrogen_respiration_relative") >>
      [] s = "plot_rp_pg" ->
           << Chart("make_plot", "rp_vs_pg", TRUE, "rp_vs_pg") >>
      [] s = "plot_rubisco_rp" ->
           << Chart("make_plot", "rubisco_rp", TRUE, "rubisco_rp"),
              Chart("make_3d_plot", "rubisco_rp_3d", FALSE,
                    "rubisco_rp_3d") >>
      [] s = "plot_temperature_respiration" ->
           << Chart("make_temperature_response_plot",
                    "temperature_respiration", TRUE,
                    "temperature_respiration"),
              Chart("make_q10_sensitivity_plot", "temperature_respiration_q10",
                    TRUE, "temperature_respiration_q10"),
              Chart("make_relative_change_plot",
                    "temperature_respiration_relative", TRUE,
                    "temperature_respiration_relative") >>
      [] OTHER -> << >>

\* The formats of the module docstrings.
savefig_formats_documented == <<"png", "svg", "pdf", "eps">>

\* for ext in ['png', 'pdf']
savefig_formats == <<"png", "pdf">>

\* Every chart saving under one base name.
savefig_path_flat(name, e) == [name |-> "figure", ext |-> e]

\* A path that carries the number of the run.
savefig_path_per_run(name, e) == [name |-> name, ext |-> e, run |-> runs]

\* out_dir / f'<name>.{ext}'
savefig_path(name, e) == [name |-> name, ext |-> e]

\* Path.mkdir without exist_ok: a directory already there is an error.
mkdir_strict(path) ==
    IF path = "absent"
    THEN [path |-> "dir", raised |-> ""]
    ELSE [path |-> path, raised |-> "FileExistsError"]

\* out_dir.mkdir(exist_ok=True): creates the directory; an existing
\* directory is left alone; any other file at the path raises.
mkdir(path) ==
    CASE path = "absent" -> [path |-> "dir", raised |-> ""]
      [] path = "dir"    -> [path |-> "dir", raised |-> ""]
      [] OTHER           -> [path |-> path, raised |-> "FileExistsError"]

style_primary == "seaborn-v0_8-whitegrid"

style_legacy == "seaborn-whitegrid"

\* plt.style.use(name): the theme takes effect, or OSError when the style
\* library has no such theme.
style_use(name) ==
    IF name \in styles
    THEN [theme |-> name, raised |-> ""]
    ELSE [theme |-> theme, raised |-> "OSError"]

\* What the path figures can be before a run, and the style libraries of
\* the matplotlib releases: the legacy names alone, both, the v0_8 names
\* alone, or a library without the seaborn themes.
FiguresStates == {"absent", "dir", "file"}

StyleLibraries == SUBSET {style_primary, style_legacy}

\* plt.rcParams['font.sans-serif'] = [...]; plt.rcParams['axes.unicode_minus']
\* = False, the statements at the top of every script module.
FontOptions == {"font.sans-serif", "axes.unicode_minus"}

\* plt.rcParams.update({...}) of a chart function: the keys it sets. The
\* surface chart, the one that selects no theme, leaves the line widths
\* alone.
rcParams_update(styled) ==
    {"font.size", "font.sans-serif", "axes.unicode_minus", "figure.figsize",
     "savefig.dpi", "pdf.fonttype", "ps.fonttype"}
      \cup (IF styled THEN {"axes.linewidth", "lines.linewidth"} ELSE {})

\* A module whose chart calls are not under a guard.
main_guard_absent(module_name) == TRUE

\* if __name__ == '__main__':
main_guard(module_name) == module_name = "__main__"

\* The chart that saves under a base name: its script and its function.
Owner(s, c) == [script |-> s, fn |-> main(s)[c].fn, name |-> main(s)[c].name]

ThisChart == main(script)[chart]

Running == pc # "none" /\ pc # "done" /\ raised = ""

\* python <script>.py
Start ==
    /\ pc = "none"
    /\ runs < MaxRuns
    /\ \E s \in Scripts : script' = s
    /\ __name__' = "__main__"
    /\ rc' = FontOptions
    /\ IF main_guard("__main__")
       THEN chart' = 1 /\ pc' = "mkdir"
       ELSE chart' = 0 /\ pc' = "imported"
    /\ ext' = 0
    /\ written' = {}
    /\ stdout' = <<>>
    /\ theme' = "default"
    /\ open_figures' = 0
    /\ raised' = ""
    /\ runs' = runs + 1
    /\ UNCHANGED <<figures, files, styles, content, history>>
    /\ UNCHANGED <<formulaVars, dataVars>>

\* out_dir.mkdir(exist_ok=True)
Mkdir ==
    /\ Running
    /\ pc = "mkdir"
    /\ figures' = mkdir(figures).path
    /\ raised' = mkdir(figures).raised
    /\ pc' = IF mkdir(figures).raised # "" THEN pc
             ELSE IF ThisChart.style THEN "style" ELSE "draw"
    /\ UNCHANGED <<script, chart, ext, files, written, stdout, styles, theme,
                   open_figures, runs>>
    /\ UNCHANGED <<content, history, rc, __name__>>
    /\ UNCHANGED <<formulaVars, dataVars>>

\* try: plt.style.use('seaborn-v0_8-whitegrid'); an exception goes to the
\* handler.
UseStyle ==
    /\ Running
    /\ pc = "style"
    /\ theme' = style_use(style_primary).theme
    /\ pc' = IF style_use(style_primary).raised # "" THEN "except"
             ELSE "draw"
    /\ UNCHANGED <<script, chart, ext, figures, files, written, stdout,
                   styles, open_figures, raised, runs>>
    /\ UNCHANGED <<content, history, rc, __name__>>
    /\ UNCHANGED <<formulaVars, dataVars>>

\* except Exception: plt.style.use('seaborn-whitegrid')
UseLegacyStyle ==
    /\ Running
    /\ pc = "except"
    /\ theme' = style_use(style_legacy).theme
    /\ raised' = style_use(style_legacy).raised
    /\ pc' = IF style_use(style_legacy).raised # "" THEN pc ELSE "draw"
    /\ UNCHANGED <<script, chart, ext, figures, files, written, stdout,
                   styles, open_figures, runs>>
    /\ UNCHANGED <<content, history, rc, __name__>>
    /\ UNCHANGED <<formulaVars, dataVars>>

\* plt.rcParams.update({...}); fig, ax = plt.subplots() (make_3d_plot: fig =
\* plt.figure()) and the drawing calls.
Draw ==
    /\ Running
    /\ pc = "draw"
    /\ rc' = rc \cup rcParams_update(ThisChart.style)
    /\ open_figures' = open_figures + 1
    /\ ext' = 1
    /\ pc' = "savefig"
    /\ UNCHANGED <<script, chart, figures, files, written, stdout, styles,
                   theme, raised, runs>>
    /\ UNCHANGED <<content, history, __name__>>
    /\ UNCHANGED <<formulaVars, dataVars>>

\* fig.savefig(out_dir / f'<name>.{ext}', bbox_inches='tight'), one pass of
\* the loop over the formats.
SaveFig ==
    /\ Running
    /\ pc = "savefig"
    /\ files' = files \cup {savefig_path(ThisChart.name, savefig_formats[ext])}
    /\ written' =
          written \cup {savefig_path(ThisChart.name, savefig_formats[ext])}
    /\ content' = [f \in files' |->
                      IF f = savefig_path(ThisChart.name, savefig_formats[ext])
                      THEN Owner(script, chart)
                      ELSE content[f]]
    /\ IF ext < Len(savefig_formats)
       THEN ext' = ext + 1 /\ pc' = pc
       ELSE ext' = 0 /\ pc' = "close"
    /\ UNCHANGED <<script, chart, figures, stdout, styles, theme,
                   open_figures, raised, runs>>
    /\ UNCHANGED <<history, rc, __name__>>
    /\ UNCHANGED <<formulaVars, dataVars>>

\* fig.savefig raises and the files of the run are removed.
SaveFigRaises_cleaning ==
    /\ Running
    /\ pc = "savefig"
    /\ raised' = "OSError"
    /\ files' = files \ written
    /\ written' = {}
    /\ content' = [f \in files' |-> content[f]]
    /\ UNCHANGED <<script, chart, pc, ext, figures, stdout, styles, theme,
                   open_figures, runs>>
    /\ UNCHANGED <<history, rc, __name__>>
    /\ UNCHANGED <<formulaVars, dataVars>>

\* fig.savefig raises (the disk is full, the file cannot be written): the
\* file may have been created.
SaveFigRaises ==
    /\ Running
    /\ pc = "savefig"
    /\ raised' = "OSError"
    /\ \E created \in BOOLEAN :
          files' = IF created
                   THEN files \cup {savefig_path(ThisChart.name,
                                                 savefig_formats[ext])}
                   ELSE files
    /\ content' = [f \in files' |->
                      IF f = savefig_path(ThisChart.name, savefig_formats[ext])
                      THEN Owner(script, chart)
                      ELSE content[f]]
    /\ UNCHANGED <<script, chart, pc, ext, figures, written, stdout, styles,
                   theme, open_figures, runs>>
    /\ UNCHANGED <<history, rc, __name__>>
    /\ UNCHANGED <<formulaVars, dataVars>>

\* plt.close(fig), and the chart function returns: to the __main__ block
\* of the script, or to the program that imported the module.
Close ==
    /\ Running
    /\ pc = "close"
    /\ open_figures' = open_figures - 1
    /\ pc' = IF __name__ = "__main__" THEN "print" ELSE "imported"
    /\ UNCHANGED <<script, chart, ext, figures, files, written, stdout,
                   styles, theme, raised, runs>>
    /\ UNCHANGED <<content, history, rc, __name__>>
    /\ UNCHANGED <<formulaVars, dataVars>>

\* print('...: figures/<name>.[png, pdf]'), then the next chart function or
\* the end of the script.
PrintLine ==
    /\ Running
    /\ pc = "print"
    /\ stdout' = Append(stdout, ThisChart.line)
    /\ IF chart < Len(main(script))
       THEN chart' = chart + 1 /\ pc' = "mkdir"
       ELSE chart' = chart /\ pc' = "done"
    /\ UNCHANGED <<script, ext, figures, files, written, styles, theme,
                   open_figures, raised, runs>>
    /\ UNCHANGED <<content, history, rc, __name__>>
    /\ UNCHANGED <<formulaVars, dataVars>>

\* The interpreter exits, at the end of the script or of the importing
\* program, or on the exception: the process and its figures, theme and
\* options are gone, the files stay.
Exit ==
    /\ pc # "none"
    /\ pc = "done" \/ pc = "imported" \/ raised # ""
    /\ pc' = "none"
    /\ ext' = 0
    /\ theme' = "default"
    /\ open_figures' = 0
    /\ rc' = {}
    /\ __name__' = ""
    /\ history' = Append(history, [script |-> script, raised |-> raised,
                                   files |-> files])
    /\ UNCHANGED <<script, chart, figures, files, written, stdout, styles,
                   raised, runs, content>>
    /\ UNCHANGED <<formulaVars, dataVars>>

\* The statements of a running script.
Step ==
    \/ Mkdir
    \/ UseStyle
    \/ UseLegacyStyle
    \/ Draw
    \/ SaveFig
    \/ Close
    \/ PrintLine

ScriptInit ==
    /\ FormulaIdle
    /\ DataIdle
    /\ ProcessIdle
    /\ figures \in FiguresStates
    /\ styles \in StyleLibraries

ScriptNext ==
    \/ Start
    \/ Mkdir
    \/ UseStyle
    \/ UseLegacyStyle
    \/ Draw
    \/ SaveFig
    \/ SaveFigRaises
    \/ Close
    \/ PrintLine
    \/ Exit

ScriptSpec == ScriptInit /\ [][ScriptNext]_vars

\* The interpreter executes the next statement of a running script.
ScriptFairSpec == ScriptSpec /\ WF_vars(Step)

(***************************************************************************)
(* A script module imported as a library: import <script> runs the         *)
(* statements at the top of the module under the module's own name, and    *)
(* the importing program may then call the chart functions.                *)
(***************************************************************************)

MaxImports == 1

\* import <script>
Import ==
    /\ pc = "none"
    /\ runs < MaxImports
    /\ \E s \in Scripts :
          /\ script' = s
          /\ __name__' = s
          /\ IF main_guard(s)
             THEN chart' = 1 /\ pc' = "mkdir"
             ELSE chart' = 0 /\ pc' = "imported"
    /\ rc' = FontOptions
    /\ ext' = 0
    /\ written' = {}
    /\ stdout' = <<>>
    /\ theme' = "default"
    /\ open_figures' = 0
    /\ raised' = ""
    /\ runs' = runs + 1
    /\ UNCHANGED <<figures, files, styles, content, history>>
    /\ UNCHANGED <<formulaVars, dataVars>>

\* <script>.make_..._plot(), called by the importing program.
Call ==
    /\ Running
    /\ pc = "imported"
    /\ \E c \in 1..Len(main(script)) : chart' = c
    /\ pc' = "mkdir"
    /\ UNCHANGED <<script, ext, figures, files, written, stdout, styles,
                   theme, open_figures, raised, runs>>
    /\ UNCHANGED <<content, history, rc, __name__>>
    /\ UNCHANGED <<formulaVars, dataVars>>

ImportNext ==
    \/ Import
    \/ Call
    \/ Mkdir
    \/ UseStyle
    \/ UseLegacyStyle
    \/ Draw
    \/ SaveFig
    \/ SaveFigRaises
    \/ Close
    \/ Exit

ImportSpec == ScriptInit /\ [][ImportNext]_vars

(***************************************************************************)
(* The seven scripts run one after the other, each once, in any order. A   *)
(* run here is a whole run of a script in which no statement raises: the   *)
(* statements above, from Start to Exit, taken together.                   *)
(***************************************************************************)

\* The files and the lines of a whole run of a script.
RunFiles(s) ==
    {savefig_path(main(s)[c].name, savefig_formats[n]) :
        c \in 1..Len(main(s)), n \in 1..Len(savefig_formats)}

RunLines(s) == [c \in 1..Len(main(s)) |-> main(s)[c].line]

\* The chart of a script whose savefig loop writes a file: the last one, in
\* the order of the __main__ block.
LastWriter(s, f) ==
    CHOOSE c \in 1..Len(main(s)) :
        /\ \E n \in 1..Len(savefig_formats) :
              f = savefig_path(main(s)[c].name, savefig_formats[n])
        /\ \A d \in (c + 1)..Len(main(s)) :
              \A n \in 1..Len(savefig_formats) :
                 f # savefig_path(main(s)[d].name, savefig_formats[n])

\* python <script>.py, from the first statement to the exit, for a script
\* that has not run yet.
RunScript ==
    /\ pc = "none"
    /\ mkdir(figures).raised = ""
    /\ style_primary \in styles \/ style_legacy \in styles
    /\ \E s \in Scripts :
          /\ \A n \in 1..Len(history) : history[n].script # s
          /\ script' = s
          /\ chart' = Len(main(s))
          /\ files' = files \cup RunFiles(s)
          /\ written' = RunFiles(s)
          /\ content' = [f \in files' |->
                            IF f \in RunFiles(s)
                            THEN Owner(s, LastWriter(s, f))
                            ELSE content[f]]
          /\ stdout' = RunLines(s)
          /\ history' = Append(history, [script |-> s, raised |-> "",
                                         files |-> files'])
    /\ figures' = mkdir(figures).path
    /\ raised' = ""
    /\ runs' = runs + 1
    /\ UNCHANGED <<pc, ext, styles, theme, open_figures, rc, __name__>>
    /\ UNCHANGED <<formulaVars, dataVars>>

\* What RunScript takes a whole run to be, as a condition on the statements:
\* a run of ScriptSpec that has reached the end of the script has written
\* these files, printed these lines and left these contents.
RunScriptIsAWholeRun ==
    (pc = "done" /\ raised = "") =>
        /\ chart = Len(main(script))
        /\ figures = "dir"
        /\ written = RunFiles(script)
        /\ stdout = RunLines(script)
        /\ RunFiles(script) \subseteq files
        /\ \A f \in RunFiles(script) :
              content[f] = Owner(script, LastWriter(script, f))

SuiteNext == RunScript

SuiteSpec == ScriptInit /\ [][SuiteNext]_vars

-----------------------------------------------------------------------------
(* The claims.                                                             *)

\* The scale factors k of C1.
ScaleFactors ==
    {PyInt(0), PyFloat(5, 10), PyInt(2), PyInt(3), PyInt(4), PyInt(7),
     PyInt(10)}

IsPowerOfTwo(k) == k.cls = "fin" /\ k.sign = 0 /\ k.m = <<1>>

InGrowthRespiration == call.fn = "growth_respiration"

\* C1 as stated: for all non-negative GTW and m, growth_respiration(GTW, m)
\* equals m * GTW, growth_respiration(0, m) is 0,
\* growth_respiration(10, 0.25) is 2.5, and for every scale factor k
\* growth_respiration(k * GTW, m) equals k * growth_respiration(GTW, m).
C1_Homogeneous ==
    InGrowthRespiration =>
        /\ FEq(result, fmul(call.m, call.GTW))
        /\ IsZero(call.GTW) => IsZero(result)
        /\ FEq(call.GTW, PyInt(10)) /\ FEq(call.m, PyFloat(25, 100))
              => FEq(result, PyFloat(25, 10))
        /\ \A k \in ScaleFactors :
              FEq(growth_respiration(fmul(k, call.GTW), call.m),
                  fmul(k, result))

\* C1 amended: growth_respiration(GTW, m) equals the floating-point product
\* m * GTW, growth_respiration(0, m) is 0, growth_respiration(10, 0.25) is
\* 2.5, and growth_respiration(k * GTW, m) equals
\* k * growth_respiration(GTW, m) for every scale factor k that is a power of
\* two; for any other k the two sides are each rounded and may differ in the
\* last bit.
C1_HomogeneousPowerOfTwo ==
    InGrowthRespiration =>
        /\ FEq(result, fmul(call.m, call.GTW))
        /\ IsZero(call.GTW) => IsZero(result)
        /\ FEq(call.GTW, PyInt(10)) /\ FEq(call.m, PyFloat(25, 100))
              => FEq(result, PyFloat(25, 10))
        /\ \A k \in ScaleFactors :
              IsPowerOfTwo(k) =>
                  FEq(growth_respiration(fmul(k, call.GTW), call.m),
                      fmul(k, result))

\* growth_respiration(10, 0.25) has returned 2.5.
C1_Witness ==
    /\ InGrowthRespiration
    /\ FEq(call.GTW, PyInt(10))
    /\ FEq(call.m, PyFloat(25, 100))
    /\ FEq(result, PyFloat(25, 10))

InMaintenanceRespiration == call.fn = "maintenance_respiration"

\* W_1 * r_1 + ... + W_n * r_n, the terms added in index order.
RECURSIVE DotProduct(_, _, _)
DotProduct(W, r, n) ==
    IF n = 0 THEN Zero(0, TRUE)
    ELSE fadd(DotProduct(W, r, n - 1), fmul(W[n], r[n]))

\* C2: for weight and coefficient sequences of equal length,
\* maintenance_respiration returns the dot product sum_i W_i * r_i; for two
\* empty sequences it returns 0, and for ([100, 100, 100],
\* [0.015, 0.010, 0.012]) it returns 3.7.
C2_DotProduct ==
    InMaintenanceRespiration
    /\ Len(call.organ_weights) = Len(call.organ_coeffs) =>
        /\ FEq(result, DotProduct(call.organ_weights, call.organ_coeffs,
                                  Len(call.organ_weights)))
        /\ Len(call.organ_weights) = 0 => IsZero(result)
        /\ /\ call.organ_weights = <<PyInt(100), PyInt(100), PyInt(100)>>
           /\ call.organ_coeffs = <<PyFloat(15, 1000), PyFloat(10, 1000),
                                    PyFloat(12, 1000)>>
           => FEq(result, PyFloat(37, 10))

\* maintenance_respiration([100, 100, 100], [0.015, 0.010, 0.012]) has
\* returned 3.7.
C2_Witness ==
    /\ InMaintenanceRespiration
    /\ call.organ_weights = <<PyInt(100), PyInt(100), PyInt(100)>>
    /\ call.organ_coeffs = <<PyFloat(15, 1000), PyFloat(10, 1000),
                             PyFloat(12, 1000)>>
    /\ FEq(result, PyFloat(37, 10))

\* C3 as stated: whenever maintenance_respiration is called with a weight
\* sequence and a coefficient sequence of different lengths (one of them of
\* length 1 included) it fails with a dimension-mismatch error and returns
\* no value.
C3_MismatchRaises ==
    InMaintenanceRespiration
    /\ Len(call.organ_weights) # Len(call.organ_coeffs)
    => result.cls = "ValueError"

InNetPhotosynthesis == call.fn = "net_photosynthesis"

\* C4: net_photosynthesis(Vc, Vo, Rd) equals Vc - 0.5 * Vo - Rd; in
\* particular net_photosynthesis(Vc, 0, 0) is Vc for every Vc, and
\* net_photosynthesis(80, 40, 2) is 58.
C4_NetEqualsGrossLessLosses ==
    InNetPhotosynthesis =>
        /\ FEq(result,
               fsub(fsub(call.Vc, fmul(Fin(0, <<1>>, -1, FALSE), call.Vo)),
                    call.Rd))
        /\ IsZero(call.Vo) /\ IsZero(call.Rd) => FEq(result, call.Vc)
        /\ /\ FEq(call.Vc, PyInt(80))
           /\ FEq(call.Vo, PyInt(40))
           /\ FEq(call.Rd, PyInt(2))
           => FEq(result, PyInt(58))

\* net_photosynthesis(80, 40, 2) has returned 58.
C4_Witness ==
    /\ InNetPhotosynthesis
    /\ FEq(call.Vc, PyInt(80))
    /\ FEq(call.Vo, PyInt(40))
    /\ FEq(call.Rd, PyInt(2))
    /\ FEq(result, PyInt(58))

Negative(v) == v.cls \in {"fin", "inf"} /\ v.sign = 1 /\ ~IsZero(v)

\* 0.5 * Vo + Rd > Vc in exact arithmetic (0.5 * Vo is exact).
ExactLoss(Vc, Vo, Rd) ==
    LET d == ExactSum(ExactSum(fmul(Half, Vo), Rd), fneg(Vc))
    IN  ~IsZero(d) /\ d.sign = 0

\* C5 as stated: net_photosynthesis never clamps its result at zero and
\* never signals an error; for all Vc, Vo, Rd the result is strictly negative
\* exactly when 0.5 * Vo + Rd > Vc.
C5_NegativeIffLoss ==
    InNetPhotosynthesis =>
        /\ ~IsRaise(result)
        /\ Negative(result)
              <=> FLt(call.Vc, fadd(fmul(Half, call.Vo), call.Rd))

\* C5 amended: net_photosynthesis never clamps its result at zero and never
\* signals an error; the result is strictly negative exactly when the rounded
\* difference Vc - 0.5 * Vo is below Rd.  A negative result implies
\* 0.5 * Vo + Rd > Vc, and 0.5 * Vo + Rd > Vc implies a result that is
\* negative or zero: it is zero when Vc - 0.5 * Vo rounds up to Rd, and the
\* two conditions coincide whenever Vc - 0.5 * Vo is computed without
\* rounding.
C5_NegativeIffRoundedGrossBelowRd ==
    InNetPhotosynthesis =>
        LET gross == fsub(call.Vc, fmul(Half, call.Vo))
            loss  == ExactLoss(call.Vc, call.Vo, call.Rd)
        IN  /\ ~IsRaise(result)
            /\ Negative(result) <=> FLt(gross, call.Rd)
            /\ Negative(result) => loss
            /\ loss => Negative(result) \/ IsZero(result)
            /\ FEq(gross, ExactSum(call.Vc, fneg(fmul(Half, call.Vo))))
                  => (Negative(result) <=> loss)

\* net_photosynthesis(10, 40, 2) has returned -12: a net loss, not clamped.
C5_Witness ==
    /\ InNetPhotosynthesis
    /\ FEq(call.Vc, PyInt(10))
    /\ FEq(call.Vo, PyInt(40))
    /\ FEq(call.Rd, PyInt(2))
    /\ FEq(result, fneg(PyInt(12)))

InNitrogenRespirationCoefficient ==
    call.fn = "nitrogen_respiration_coefficient"

\* C6: for all r_ref and all non-zero N_ref,
\* nitrogen_respiration_coefficient(N_ref, r_ref, N_ref) is r_ref.
C6_IdentityAtReference ==
    InNitrogenRespirationCoefficient
    /\ FEq(call.Ni, call.N_ref) /\ ~IsZero(call.N_ref)
    => FEq(result, call.r_ref)

\* nitrogen_respiration_coefficient(3.0, 0.012, 3.0) has returned 0.012.
C6_Witness ==
    /\ InNitrogenRespirationCoefficient
    /\ FEq(call.Ni, PyFloat(30, 10))
    /\ FEq(call.N_ref, PyFloat(30, 10))
    /\ FEq(call.r_ref, PyFloat(12, 1000))
    /\ FEq(result, PyFloat(12, 1000))

InRubiscoRp == call.fn = "rubisco_rp"

\* The call raised, or returned an infinity or a NaN.
FaultOrNonFinite(v) == IsRaise(v) \/ IsNonFinite(v)

\* C7 as stated: division by zero is unhandled; a call of
\* nitrogen_respiration_coefficient with N_ref = 0, or of rubisco_rp with
\* Ks = 0, Kc = 0 or Ko = 0, ends in a non-finite result or a raised
\* arithmetic fault, never in a finite value.
C7_ZeroDivisorNeverFinite ==
    /\ InNitrogenRespirationCoefficient /\ IsZero(call.N_ref)
          => FaultOrNonFinite(result)
    /\ InRubiscoRp /\ (IsZero(call.Ks) \/ IsZero(call.Kc) \/ IsZero(call.Ko))
          => FaultOrNonFinite(result)

\* C7 amended: division by zero is unhandled.  A call of
\* nitrogen_respiration_coefficient with N_ref = 0, or of rubisco_rp with
\* Ks = 0, ends in a raised ZeroDivisionError (Python scalars) or in a
\* non-finite result (NumPy operands).  A call of rubisco_rp with Kc = 0 or
\* Ko = 0 and Ks non-zero raises ZeroDivisionError when the zero divides a
\* Python scalar; when it divides an array element the quotient is inf or
\* nan, the denominator with it, and the call returns 0.0 (from inf) or nan:
\* a finite zero that IEEE arithmetic yields, not one a guard substitutes.
C7_ZeroDivisorPassesThrough ==
    /\ InNitrogenRespirationCoefficient /\ IsZero(call.N_ref)
          => /\ FaultOrNonFinite(result)
             /\ ~call.Ni.np => result.cls = "ZeroDivisionError"
    /\ InRubiscoRp /\ IsZero(call.Ks) => FaultOrNonFinite(result)
    /\ InRubiscoRp /\ (IsZero(call.Ks) \/ IsZero(call.Kc) \/ IsZero(call.Ko))
          /\ call.mode = "scalar"
          => result.cls = "ZeroDivisionError"
    /\ InRubiscoRp /\ ~IsZero(call.Ks)
          /\ (IsZero(call.Kc) \/ IsZero(call.Ko))
          => \/ FaultOrNonFinite(result)
             \/ /\ IsZero(result)
                /\ \/ IsZero(call.Kc) /\ call.CO2.np
                   \/ IsZero(call.Ko) /\ call.O2.np

\* nitrogen_respiration_coefficient on an array element with N_ref = 0 has
\* returned inf.
C7_Witness ==
    /\ InNitrogenRespirationCoefficient
    /\ IsZero(call.N_ref)
    /\ call.Ni.np
    /\ result.cls = "inf"

InTemperatureRespiration == call.fn = "temperature_respiration"

\* C9: for all Rm0, Q10 and T0, temperature_respiration(T0, Rm0, Q10, T0)
\* is Rm0, whatever the value of Q10.
C9_IdentityAtReferenceTemperature ==
    InTemperatureRespiration /\ FEq(call.T, call.T0)
    => FEq(result, call.Rm0)

\* temperature_respiration(25, 5.0, Q10, 25) on an element Q10 = 2.5 of the
\* sweep has returned 5.0.
C9_Witness ==
    /\ InTemperatureRespiration
    /\ FEq(call.T, PyInt(25))
    /\ FEq(call.T0, PyInt(25))
    /\ call.Q10 = Elem(PyFloat(25, 10))
    /\ FEq(result, PyFloat(50, 10))

\* a == b, as far as the model computes both sides.
Agrees(a, b) == a.cls = "approx" \/ b.cls = "approx" \/ FEq(a, b)

\* C10 as stated: for all Rm0, Q10 and T0,
\* temperature_respiration(T0 + 10, Rm0, Q10, T0) is Rm0 * Q10, and
\* temperature_respiration(35, 5.0, 2.0, 25) is 20.0.
C10_OneStepScalesByQ10 ==
    InTemperatureRespiration =>
        /\ FEq(call.T, fadd(call.T0, Ten))
              => Agrees(result, fmul(call.Rm0, call.Q10))
        /\ /\ FEq(call.T, PyInt(35))
           /\ FEq(call.Rm0, PyFloat(50, 10))
           /\ FEq(call.Q10, PyFloat(20, 10))
           /\ FEq(call.T0, PyInt(25))
           => FEq(result, PyFloat(200, 10))

\* C10 amended: for all Rm0 and Q10 and every T0 for which
\* ((T0 + 10) - T0) / 10 evaluates to exactly 1.0 (every whole-number T0, the
\* default 25 among them), temperature_respiration(T0 + 10, Rm0, Q10, T0) is
\* Rm0 * Q10; temperature_respiration(35, 5.0, 2.0, 25) is 10.0.
C10_OneExactStepScalesByQ10 ==
    InTemperatureRespiration =>
        /\ /\ FEq(call.T, fadd(call.T0, Ten))
           /\ IsOne(fdiv(fsub(call.T, call.T0), Ten))
           => FEq(result, fmul(call.Rm0, call.Q10))
        /\ /\ FEq(call.T, PyInt(35))
           /\ FEq(call.Rm0, PyFloat(50, 10))
           /\ FEq(call.Q10, PyFloat(20, 10))
           /\ FEq(call.T0, PyInt(25))
           => FEq(result, PyFloat(100, 10))

\* temperature_respiration(35, 5.0, 2.0, 25) has returned 10.0.
C10_Witness ==
    /\ InTemperatureRespiration
    /\ FEq(call.T, PyInt(35))
    /\ FEq(call.Rm0, PyFloat(50, 10))
    /\ FEq(call.Q10, PyFloat(20, 10))
    /\ FEq(call.T0, PyInt(25))
    /\ FEq(result, PyFloat(100, 10))

PositiveFinite(v) == v.cls = "fin" /\ v.sign = 0 /\ ~IsZero(v)

NonNegative(v) == IsZero(v) \/ PositiveFinite(v)

\* The CO2 concentrations a call is compared with: the plotted ones and one
\* too small to change the denominator.
CO2Probes == {c \in CO2Values : NonNegative(c)} \cup {Tiny(55)}

\* rubisco_rp at another CO2, everything else as in the call in progress.
RpAt(CO2) ==
    rubisco_rp(Swept(CO2, call.mode), call.O2, call.Rpmax,
               call.Ks, call.Kc, call.Ko)

PositiveParameters ==
    /\ InRubiscoRp
    /\ NonNegative(call.CO2)
    /\ PositiveFinite(call.O2) /\ PositiveFinite(call.Rpmax)
    /\ PositiveFinite(call.Ks) /\ PositiveFinite(call.Kc)
    /\ PositiveFinite(call.Ko)

\* Rpmax * (O2 / Ks) / (1 + O2 / Ko)
ValueAtZeroCO2 ==
    fdiv(fmul(call.Rpmax, fdiv(call.O2, call.Ks)),
         fadd(One(FALSE), fdiv(call.O2, call.Ko)))

\* C11 as stated: for fixed positive O2, Rpmax, Ks, Kc and Ko, rubisco_rp is
\* strictly decreasing in CO2: for all CO2_a < CO2_b the value at CO2_a is
\* greater than the value at CO2_b; the value at CO2 = 0 is the finite
\* positive Rpmax * (O2 / Ks) / (1 + O2 / Ko).
C11_StrictlyDecreasingInCO2 ==
    PositiveParameters =>
        /\ \A CO2_b \in CO2Probes :
              FLt(call.CO2, CO2_b) => FLt(RpAt(CO2_b), result)
        /\ IsZero(call.CO2)
              => PositiveFinite(result) /\ FEq(result, ValueAtZeroCO2)

\* C11 amended: for fixed positive O2, Rpmax, Ks, Kc and Ko, rubisco_rp is
\* non-increasing in CO2 >= 0: for all CO2_a < CO2_b the value at CO2_a is
\* not below the value at CO2_b.  It is strictly greater for the
\* concentrations the script plots (0, 1, 400, 1000); the two values are
\* equal when CO2_b - CO2_a is too small to change the rounded denominator
\* (0 and 2^-55).  The value at CO2 = 0 is the finite positive
\* Rpmax * (O2 / Ks) / (1 + O2 / Ko).
C11_NonIncreasingInCO2 ==
    PositiveParameters =>
        /\ \A CO2_b \in CO2Probes :
              FLt(call.CO2, CO2_b) =>
                  /\ ~FLt(result, RpAt(CO2_b))
                  /\ CO2_b \in CO2Values => FLt(RpAt(CO2_b), result)
                  /\ IsZero(call.CO2) /\ CO2_b = Tiny(55)
                        => FEq(RpAt(CO2_b), result)
        /\ IsZero(call.CO2)
              => PositiveFinite(result) /\ FEq(result, ValueAtZeroCO2)

\* rubisco_rp(1, 210, 20.0, 2.5, 40.0, 25.0) on an element of the CO2 sweep
\* has returned a positive value above the one at CO2 = 400.
C11_Witness ==
    /\ PositiveParameters
    /\ call.mode = "array"
    /\ FEq(call.CO2, PyInt(1))
    /\ FEq(call.O2, PyInt(210))
    /\ PositiveFinite(result)
    /\ FLt(RpAt(PyInt(400)), result)

\* denominator = (CO2 / Kc) + (1 + O2 / Ko) of the call in progress.
Denominator ==
    fadd(fdiv(call.CO2, call.Kc), fadd(One(FALSE), fdiv(call.O2, call.Ko)))

NonZeroConstants ==
    /\ InRubiscoRp
    /\ ~IsZero(call.Ks) /\ ~IsZero(call.Kc) /\ ~IsZero(call.Ko)

\* C12 as stated: rubisco_rp yields a finite value, with no division by
\* zero, for every CO2, O2 and Rpmax whenever Kc, Ko and Ks are all non-zero.
C12_FiniteForNonZeroConstants ==
    NonZeroConstants => IsFinite(result)

\* C12 amended: with Kc, Ko and Ks all non-zero rubisco_rp yields a finite
\* value whenever its denominator CO2 / Kc + (1 + O2 / Ko) is non-zero, as
\* it is for all non-negative CO2 and O2 with positive Kc and Ko.  Where the
\* denominator is zero (CO2 = -Kc with O2 = 0, CO2 = -200 with O2 = 100) the
\* division by zero is unhandled: ZeroDivisionError on Python scalars, inf
\* or nan on NumPy operands.
C12_FiniteForNonZeroDenominator ==
    NonZeroConstants =>
        /\ ~IsZero(Denominator) => IsFinite(result)
        /\ /\ NonNegative(call.CO2) /\ NonNegative(call.O2)
           /\ PositiveFinite(call.Kc) /\ PositiveFinite(call.Ko)
           => IsFinite(result)
        /\ IsZero(Denominator) =>
              /\ FaultOrNonFinite(result)
              /\ call.mode = "scalar" => result.cls = "ZeroDivisionError"
              /\ call.mode # "scalar" => IsNonFinite(result)

\* rubisco_rp(400, 210, 20.0, 2.5, 40.0, 25.0) on an element of the CO2
\* sweep has returned a finite positive value.
C12_Witness ==
    /\ NonZeroConstants
    /\ call.mode = "array"
    /\ FEq(call.CO2, PyInt(400))
    /\ FEq(call.O2, PyInt(210))
    /\ FEq(call.Rpmax, PyFloat(200, 10))
    /\ PositiveFinite(result)

InMake3dPlot == plot.fn = "make_3d_plot"

\* C13: make_3d_plot evaluates rubisco_rp over the outer product of a
\* 100-point CO2 grid and a 100-point O2-percentage grid: the surface has
\* 100 x 100 = 10,000 values, and the value at row j, column i is
\* rubisco_rp(co2[i], 10 * o2_pct[j], Rpmax, Ks, Kc, Ko), the percentage
\* multiplied by 10 as in make_plot.
C13_SurfaceOverOuterProduct ==
    InMake3dPlot =>
        /\ plot.shape = <<100, 100>>
        /\ plot.shape[1] * plot.shape[2] = 10000
        /\ plot.j \in 1..plot.shape[1]
        /\ plot.i \in 1..plot.shape[2]
        /\ plot.RP =
              rubisco_rp(np_linspace(PyInt(1), PyInt(1000), 100, plot.i),
                         fmul(Ten, np_linspace(PyInt(5), PyInt(50), 100,
                                               plot.j)),
                         plot.Rpmax, plot.Ks, plot.Kc, plot.Ko)

\* make_3d_plot on its defaults has computed the last row, first column of
\* the surface: rubisco_rp at CO2 = 1 and O2 = 500.
C13_Witness ==
    /\ InMake3dPlot
    /\ plot.j = 100 /\ plot.i = 1
    /\ FEq(plot.Rpmax, PyFloat(200, 10)) /\ FEq(plot.Ks, PyFloat(25, 10))
    /\ FEq(plot.Kc, PyFloat(400, 10)) /\ FEq(plot.Ko, PyFloat(250, 10))
    /\ FEq(plot.CO2, PyInt(1)) /\ FEq(plot.O2, PyInt(500))
    /\ PositiveFinite(plot.RP)

InMakePlot == plot.fn = "make_plot"

\* make_plot called with another admissible range, all else equal.
WithRange(range) ==
    make_plot(plot.alpha, range[1], range[2], plot.pg_max, plot.k)

\* C14 as stated: in make_plot of plot_rp_pg the range [alpha_min, alpha_max]
\* is used only for the shaded band and never to clamp: the typical line is
\* alpha * P_g at every grid point and the sample points come from alpha
\* alone, for every alpha, those below alpha_min and above alpha_max
\* included.
C14_RangeOnlyShadesBand ==
    InMakePlot =>
        /\ plot.y_typ = fmul(plot.alpha, plot.x)
        /\ \A range \in AlphaRanges :
              /\ WithRange(range).x = plot.x
              /\ WithRange(range).y_typ = plot.y_typ
              /\ WithRange(range).pg_points = plot.pg_points
              /\ WithRange(range).rp_points = plot.rp_points
              /\ WithRange(range).xlim = plot.xlim
              /\ WithRange(range).ylim = plot.ylim

\* C14 amended: in make_plot of plot_rp_pg the range [alpha_min, alpha_max]
\* is never used to clamp: the typical line is alpha * P_g at every grid
\* point and the sample points come from alpha alone, for every alpha, those
\* below alpha_min and above alpha_max included.  The range is used for the
\* shaded band and its legend label, and alpha_max also sets the upper limit
\* of the y axis, alpha_max * pg_max * 1.05: for alpha above 1.05 * alpha_max
\* the end of the typical line lies above the axis.
C14_RangeShadesBandAndSetsAxis ==
    InMakePlot =>
        /\ plot.y_typ = fmul(plot.alpha, plot.x)
        /\ plot.y_min = fmul(plot.alpha_min, plot.x)
        /\ plot.y_max = fmul(plot.alpha_max, plot.x)
        /\ plot.ylim[2] =
              fmul(fmul(plot.alpha_max, plot.pg_max), OneAndOneTwentieth)
        /\ \A range \in AlphaRanges :
              /\ WithRange(range).x = plot.x
              /\ WithRange(range).y_typ = plot.y_typ
              /\ WithRange(range).pg_points = plot.pg_points
              /\ WithRange(range).rp_points = plot.rp_points
              /\ WithRange(range).xlim = plot.xlim
        /\ /\ plot.k = plot.len
           /\ FLt(fmul(OneAndOneTwentieth, plot.alpha_max), plot.alpha)
           => FLt(plot.ylim[2], plot.y_typ)

\* make_plot(alpha = 0.70, alpha_min = 0.30, alpha_max = 0.60) has computed
\* the last point of the typical line, 0.70 * pg_max, above the band.
C14_Witness ==
    /\ InMakePlot
    /\ FEq(plot.alpha, PyFloat(70, 100))
    /\ FEq(plot.alpha_max, PyFloat(60, 100))
    /\ plot.k = 200
    /\ FEq(plot.x, plot.pg_max)
    /\ FEq(plot.y_typ, fmul(PyFloat(70, 100), plot.pg_max))
    /\ FLt(plot.y_max, plot.y_typ)

\* The stream of a new generator of seed 42: the draws 1..12 scaled to
\* [0.1 * pg_max, 0.95 * pg_max), and the draws 13..24 scaled by
\* 0.03 * alpha * pg_max.
SeededUniform(pg_max, i) ==
    LET low  == fmul(Tenth, pg_max)
        high == fmul(NineteenTwentieths, pg_max)
    IN  fadd(low, fmul(fsub(high, low),
                       next_double([seed |-> 42, pos |-> 0], i)))

SeededNoise(alpha, pg_max, i) ==
    fadd(PyInt(0), fmul(fmul(fmul(ThreeHundredths, alpha), pg_max),
                        next_gauss([seed |-> 42, pos |-> 12], i)))

\* C15: two invocations of make_plot of plot_rp_pg with the same arguments
\* yield the same 12 sample points (P_g, R_p), whatever random draws were
\* made in between: each invocation creates its own generator of seed 42 and
\* draws the uniform samples before the noise samples, so the points are a
\* function of alpha and pg_max alone.
C15_SamplesReproducible ==
    InMakePlot =>
        /\ DOMAIN plot.pg_points = 1..12
        /\ DOMAIN plot.rp_points = 1..12
        /\ \A i \in 1..12 :
              /\ plot.pg_points[i] = SeededUniform(plot.pg_max, i)
              /\ plot.rp_points[i] =
                    fadd(fmul(plot.alpha, SeededUniform(plot.pg_max, i)),
                         SeededNoise(plot.alpha, plot.pg_max, i))

\* make_plot on its defaults has computed its sample points after draws from
\* the global generator.
C15_Witness ==
    /\ InMakePlot
    /\ np_random > 0
    /\ FEq(plot.alpha, PyFloat(45, 100))
    /\ FEq(plot.pg_max, PyFloat(400, 10))
    /\ DOMAIN plot.rp_points = 1..12
    /\ plot.pg_points[1] = SeededUniform(PyFloat(400, 10), 1)
    /\ PositiveFinite(plot.rp_points[12])

\* The two files of a chart.
ChartFiles(name) ==
    {[name |-> name, ext |-> "png"], [name |-> name, ext |-> "pdf"]}

\* The chart functions of the script of this run.
ChartsOfRun == 1..Len(main(script))

\* Chart function c of this run has returned.
Returned(c) ==
    \/ c < chart
    \/ /\ c = chart
       /\ pc \in {"print", "done"} \/ (pc = "none" /\ raised = "")

\* This run has reached the end of its script.
Succeeded ==
    /\ runs > 0
    /\ raised = ""
    /\ pc \in {"done", "none"}

\* The files this run has written under the name of chart c.
WrittenBy(c) == {f \in written : f.name = main(script)[c].name}

C17_FourFormatsPerChart ==
    /\ Succeeded
    /\ script \in {"plot_rp_pg", "plot_rubisco_rp", "plot_net_photosynthesis"}
    => \A c \in ChartsOfRun : \A e \in {"png", "svg", "pdf", "eps"} :
          [name |-> main(script)[c].name, ext |-> e] \in files

\* The files a confirmation line names.
NamedIn(line) ==
    {[name |-> line.name, ext |-> line.exts[n]] : n \in DOMAIN line.exts}

\* The lines printed so far are those of the first charts, one each; each
\* was printed after both files of its chart were written and names the
\* files written; no file of a chart is written before the line of the
\* chart before it.
C18_Lines ==
    /\ Len(stdout) <= Len(main(script))
    /\ \A k \in 1..Len(stdout) :
          /\ Returned(k)
          /\ ChartFiles(main(script)[k].name) \subseteq written
          /\ NamedIn(stdout[k]) = WrittenBy(k)
    /\ \A c \in ChartsOfRun : WrittenBy(c) # {} => c <= Len(stdout) + 1
    /\ Succeeded => Len(stdout) = Len(main(script))

\* C18: a script run with default parameters and no fault runs to
\* completion and prints exactly one confirmation line per chart; the line
\* of a chart is printed only after both files of that chart have been
\* written and before any file of the next chart is written, and the file
\* set the line names is the set written.
C18_OneLinePerCompletedChart ==
    /\ []C18_Lines
    /\ (pc = "mkdir" /\ chart = 1 /\ raised = "")
          ~> (pc = "done" \/ raised # "")

\* plot_growth_respiration has run to its end and printed its four lines.
C18_Witness ==
    /\ pc = "done"
    /\ script = "plot_growth_respiration"
    /\ raised = ""
    /\ Len(stdout) = 4
    /\ stdout[4].name = "growth_respiration_composite"

\* C19 as stated: whatever the initial state of the path figures, absent or
\* already present, every plotting function creates it if needed and goes
\* on to write its files without raising.
C19_MkdirNeverRaises ==
    pc = "mkdir" => raised = ""

\* C19 amended: a missing output directory is never an error: when the path
\* figures is absent or is a directory, every plotting function creates it
\* if needed and goes on without raising.  When figures is present and is
\* not a directory, mkdir(exist_ok=True) raises FileExistsError and the run
\* ends in its first plotting function before anything is written.
C19_MkdirRaisesOnlyOnAFile ==
    /\ pc = "mkdir" /\ figures # "file" => raised = ""
    /\ pc \in {"style", "except", "draw", "savefig", "close", "print", "done"}
          => figures = "dir"
    /\ pc = "mkdir" /\ raised # "" =>
          /\ raised = "FileExistsError"
          /\ figures = "file"
          /\ chart = 1
          /\ written = {}

\* The second plotting function of a script found the directory present and
\* is saving its figure.
C19_Witness ==
    /\ pc = "savefig"
    /\ chart = 2
    /\ figures = "dir"
    /\ raised = ""
    /\ ChartFiles(main(script)[1].name) \subseteq files

\* C20: when the named theme is unavailable, every plotting function falls
\* back to a default theme and goes on to write its two files; the fault of
\* the theme selection never propagates to the caller.
C20_ThemeFaultNeverPropagates ==
    pc \in {"style", "except"} => raised = ""

\* The call of a chart function has ended, by its return or by an exception.
CallEnded ==
    \/ pc \in {"print", "done"}
    \/ pc # "none" /\ raised # ""

\* C21: each plotting function releases the figure it created whether or not
\* writing succeeds: in every execution, one where saving the PNG or the PDF
\* raises included, no figure created by the call is open when the call
\* ends.
C21_NoFigureOpenWhenCallEnds ==
    CallEnded => open_figures = 0

\* The theme a chart function is rendered under when no plotting call ran
\* before it: the one it selects, or the default when it selects none.
OwnTheme(c) ==
    IF ~c.style THEN "default"
    ELSE IF style_primary \in styles THEN style_primary ELSE style_legacy

\* C22: no plotting call modifies process-wide state that a later plotting
\* call reads: the theme a chart is rendered under is the same whatever
\* plotting calls ran before it, for make_3d_plot, which selects no theme,
\* in particular.
C22_ThemeIndependentOfEarlierCalls ==
    pc = "savefig" => theme = OwnTheme(ThisChart)

\* C23 as stated: a failure is fatal to the run and leaves no partial
\* results: the run stops at the first fault and no output file written by
\* that run remains.
C23_NoPartialResults ==
    pc # "none" /\ raised # "" => written \cap files = {}

\* The files of the chart functions that returned before the fault, and of
\* the formats saved before it, are in figures.
WrittenBeforeFault ==
    /\ written \subseteq files
    /\ \A c \in ChartsOfRun :
          c < chart => ChartFiles(main(script)[c].name) \subseteq written
    /\ pc = "savefig" =>
          \A n \in 1..(ext - 1) :
              savefig_path(ThisChart.name, savefig_formats[n]) \in written

\* C23 amended: a failure is fatal to the run: the run stops at the first
\* fault without retry, nothing more is written or printed, and the
\* interpreter exits.  The run removes nothing: every file it wrote before
\* the fault (the files of the earlier charts, the PNG of the chart whose PDF
\* failed) stays in figures.
C23_FatalAndFilesStay ==
    /\ [](pc # "none" /\ raised # "" => WrittenBeforeFault)
    /\ [][pc # "none" /\ raised # "" =>
             /\ pc' = "none"
             /\ raised' = raised
             /\ files' = files
             /\ written' = written
             /\ stdout' = stdout]_vars

\* Saving the PDF of the second chart of a script raised: the PNG of that
\* chart and both files of the first chart are in figures.
C23_Witness ==
    /\ pc = "savefig"
    /\ raised = "OSError"
    /\ chart = 2
    /\ ext = 2
    /\ savefig_path(ThisChart.name, "png") \in files
    /\ ChartFiles(main(script)[1].name) \subseteq files

InMakeCompositeCoefficientPlot == plot.fn = "make_composite_coefficient_plot"

\* The fractions of an organ as written, in hundredths, added up.
FractionsTotal(organ) ==
    Fractions[organ][1] + Fractions[organ][2] + Fractions[organ][3]
        + Fractions[organ][4] + Fractions[organ][5]

InMakeStackedPlot == plot.fn = "make_stacked_plot"

\* C25: in make_stacked_plot the lower edge of the dark-respiration band,
\* Vc + (-0.5 * Vo) + (-Rd), equals net_photosynthesis(Vc, Vo, Rd) at every
\* grid point, for every Vo and Rd: the three bands account exactly for the
\* gap between Vc and A_n.
C25_BandsMeetNetLine ==
    InMakeStackedPlot =>
        /\ plot.dark_respiration_edge = plot.An
        /\ plot.dark_respiration_edge =
              net_photosynthesis(plot.Vc, plot.Vo, plot.Rd)
        /\ plot.photorespiration_edge = fsub(plot.Vc, fmul(Half, plot.Vo))

\* make_stacked_plot on its defaults has computed the last grid point:
\* Vc = 100 and A_n = 78 at the lower edge of the bands.
C25_Witness ==
    /\ InMakeStackedPlot
    /\ plot.k = 300
    /\ FEq(plot.Vc, PyInt(100))
    /\ FEq(plot.Vo, PyInt(40))
    /\ FEq(plot.Rd, PyInt(2))
    /\ FEq(plot.dark_respiration_edge, PyInt(78))

\* C26: the inline totals of the drivers of plot_maintenance_respiration
\* agree with maintenance_respiration: the total annotated above each growth
\* stage in make_organ_contribution_plot equals
\* maintenance_respiration(weights[stage], coeffs), and Rm_total of
\* make_weight_sensitivity_plot at each W_leaf equals
\* maintenance_respiration([W_leaf, 100, 100], [0.015, 0.010, 0.012]).
C26_InlineTotalsAgree ==
    /\ plot.fn = "make_organ_contribution_plot" =>
          plot.bottom = maintenance_respiration(plot.weights, plot.coeffs)
    /\ plot.fn = "make_weight_sensitivity_plot" =>
          plot.Rm_total =
              maintenance_respiration(
                  <<plot.W_leaf, PyInt(100), PyInt(100)>>,
                  <<PyFloat(15, 1000), PyFloat(10, 1000), PyFloat(12, 1000)>>)

\* make_weight_sensitivity_plot has computed the total at the last grid
\* point, W_leaf = 400.
C26_Witness ==
    /\ plot.fn = "make_weight_sensitivity_plot"
    /\ plot.k = 300
    /\ FEq(plot.W_leaf, PyInt(400))
    /\ FEq(plot.Rm_leaf, PyInt(6))
    /\ FLt(PyInt(8), plot.Rm_total)

InSweep == plot.fn = "sweep"

\* C27: the lockstep style sequences are never indexed out of range: in
\* every sweep loop the sweep index is a valid index into each of the
\* parallel line-style, colour, marker and line-width sequences; in the
\* functions that take the level list from the caller this holds for a list
\* of any length because the index wraps modulo the length of the sequence,
\* so series i and series i + 4 get the same style record.
C27_StyleIndexInRange ==
    InSweep =>
        /\ plot.style.ls # "IndexError"
        /\ plot.style.color # "IndexError"
        /\ plot.style.marker # "IndexError"
        /\ plot.style.lw # "IndexError"
        /\ plot.style.ls \in
              {plot.loop.styles.linestyles[k] :
                  k \in DOMAIN plot.loop.styles.linestyles}
        /\ plot.loop.levels = 0 =>
              /\ plot.loop.wraps
              /\ plot.i >= 4 => plot.style = style_record(plot.loop, plot.i - 4)
              /\ plot.style.ls = WrappedStyles.linestyles[(plot.i % 4) + 1]
              /\ plot.style.color = WrappedStyles.colors[(plot.i % 4) + 1]
              /\ plot.style.marker = WrappedStyles.markers[(plot.i % 4) + 1]

\* make_component_plot, called with six levels, is at its sixth series,
\* which gets the style of the second.
C27_Witness ==
    /\ InSweep
    /\ plot.loop.fn = "make_component_plot"
    /\ plot.n = 6
    /\ plot.i = 5
    /\ plot.style = [ls |-> "--", color |-> "0.3", marker |-> "s",
                     lw |-> "literal"]

\* The charts of the seven scripts: script and position in its __main__
\* block.
AllCharts ==
    UNION {{<<s, c>> : c \in 1..Len(main(s))} : s \in Scripts}

\* The scripts whose run has ended.
ScriptsRun == {history[n].script : n \in 1..Len(history)}

\* C28: the seven scripts have 19 charts whose base names are pairwise
\* distinct, so no chart overwrites a file of another chart: after the
\* scripts have run once each, in any order, figures holds exactly 38 files,
\* two for each chart of a script that ran, and the content of each file is
\* that of the one chart that owns its name.
C28_DistinctNamesDistinctFiles ==
    /\ Cardinality(AllCharts) = 19
    /\ \A a \in AllCharts : \A b \in AllCharts :
          main(a[1])[a[2]].name = main(b[1])[b[2]].name => a = b
    /\ files = UNION {RunFiles(s) : s \in ScriptsRun}
    /\ Cardinality(files) =
          2 * Cardinality({a \in AllCharts : a[1] \in ScriptsRun})
    /\ ScriptsRun = Scripts => Cardinality(files) = 38
    /\ \A f \in files :
          /\ \E a \in AllCharts : main(a[1])[a[2]].name = f.name
          /\ \A a \in AllCharts :
                main(a[1])[a[2]].name = f.name =>
                    content[f] = Owner(a[1], a[2])

\* The seven scripts have run, the temperature script last of all, and the
\* relative-change file of the nitrogen script is still the nitrogen
\* script's.
C28_Witness ==
    /\ Len(history) = 7
    /\ ScriptsRun = Scripts
    /\ history[1].script = "plot_nitrogen_respiration"
    /\ script = "plot_temperature_respiration"
    /\ Cardinality(files) = 38
    /\ content[[name |-> "nitrogen_respiration_relative", ext |-> "png"]].script
          = "plot_nitrogen_respiration"
    /\ content[[name |-> "temperature_respiration_relative",
                ext |-> "png"]].fn = "make_relative_change_plot"

\* The run before this one, when it ended without an exception.
LastRunSucceeded ==
    /\ Len(history) >= 1
    /\ history[Len(history)].raised = ""

\* C29: a script run again right after a run of it that succeeded finds the
\* directory there and does not fail on it, and it writes over the files
\* of the first run: at every moment of the second run, and when it has
\* ended, figures holds the file names the first run left.
C29_SecondRunReplacesInPlace ==
    /\ LastRunSucceeded =>
          /\ figures = "dir"
          /\ ~(pc = "mkdir" /\ raised # "")
    /\ (LastRunSucceeded /\ pc # "none"
            /\ history[Len(history)].script = script) =>
          files = history[Len(history)].files
    /\ \A n \in 1..(Len(history) - 1) :
          (/\ history[n].script = history[n + 1].script
           /\ history[n].raised = ""
           /\ history[n + 1].raised = "") =>
              history[n + 1].files = history[n].files

\* The growth script has run twice in a directory that was not there, both
\* runs to the end.
C29_Witness ==
    /\ Len(history) = 2
    /\ history[1].script = "plot_growth_respiration"
    /\ history[2].script = "plot_growth_respiration"
    /\ history[1].raised = ""
    /\ history[2].raised = ""
    /\ Cardinality(history[1].files) = 8
    /\ history[2].files = RunFiles("plot_growth_respiration")

\* A module has been imported and the importing program has called none of
\* its chart functions.
OnlyImported == __name__ \in Scripts /\ chart = 0

\* C30: importing a script module calls no chart function, creates no
\* directory, writes no file and prints nothing; all it does is set the two
\* font options. The charts of an imported module are made only by the
\* chart functions the importing program calls, and those print nothing.
C30_ImportOnlySetsFontOptions ==
    /\ [](OnlyImported =>
            /\ pc = "imported"
            /\ written = {}
            /\ stdout = <<>>
            /\ open_figures = 0
            /\ theme = "default"
            /\ rc = FontOptions)
    /\ [](__name__ \in Scripts => stdout = <<>>)
    /\ [][(pc = "none" /\ __name__' \in Scripts) =>
            /\ pc' = "imported"
            /\ chart' = 0
            /\ figures' = figures
            /\ files' = files
            /\ content' = content
            /\ rc' = FontOptions]_vars
    /\ [][(OnlyImported /\ pc' = "none") =>
            /\ figures' = figures
            /\ files' = files]_vars

\* The rubisco module has been imported where there is no directory
\* figures: there is none afterwards, and the two font options are set.
C30_Witness ==
    /\ OnlyImported
    /\ script = "plot_rubisco_rp"
    /\ pc = "imported"
    /\ figures = "absent"
    /\ files = {}
    /\ rc = {"font.sans-serif", "axes.unicode_minus"}

=============================================================================
